---------------------------- MODULE Spec2Model ----------------------------
(***************************************************************************)
(* Model of final-unit's two synthesis engines:                            *)
(*   - the runtime capture decoder (package runtime: ParseLine,            *)
(*     AssertStmts, CreateAssertStmts) and the determinism validator       *)
(*     (RunTimeInfo.SetIsValid), specification Spec;                       *)
(*   - the type-to-value synthesizer (package gen: TypeExprToValExpr and   *)
(*     the functions it dispatches to), specification SynthSpec.           *)
(*                                                                         *)
(* Go strings are sequences of symbols.  User data (variable names,        *)
(* captured values, loop identifiers) is spelled character by character;   *)
(* fixed fragments of a format string (" ", ":=", "*", a type name) are    *)
(* one symbol each.                                                        *)
(***************************************************************************)
EXTENDS Integers, Sequences, FiniteSets, TLC

VARIABLES
    r,          \* the test case's RunTimeInfo
    mem,        \* the declared-names memo the caller passes to ParseLine
    calls,      \* history: one record per ParseLine call made so far
    ret,        \* what the last SetIsValid call returned ("none" before)
    pc,         \* position of the decoding driver
    param,      \* the parameter (*ast.Field) FieldToAssignStmt is called with
    opts,       \* the generator's Options
    policy,     \* what the length, literal and override policies will answer
    stack,      \* the call frames of the synthesizer, innermost last
    returned,   \* the result the last return handed to its caller
    counter,    \* the CycleInfo shared by one recursion
    asked,      \* how often each policy has been asked so far
    log,        \* history: memos written, bodies expanded, skeletons returned
    crash,      \* how the Go runtime ended the process ("none" if it has not)
    assigned    \* what FieldToAssignStmt returned, once it has

decoderVars == <<r, mem, calls, ret, pc>>
synthVars == <<param, opts, policy, stack, returned, counter, asked, log, crash, assigned>>
vars ==
    <<r, mem, calls, ret, pc,
      param, opts, policy, stack, returned, counter, asked, log, crash, assigned>>

(***************************************************************************)
(* Bounds of the model.                                                    *)
(***************************************************************************)
\* Most non-terminal nodes above the terminal node of a capture.
MaxWrap == 2
\* Largest Options.MaxRecursion a run is configured with.
MaxMaxRecursion == 3
\* Call frames of the synthesizer the goroutine stack holds before the
\* runtime ends the process with a stack overflow.
StackLimit == 64

\* gen.go's default for Options.MaxRecursion.
DefaultAmountRecursion == 3

(***************************************************************************)
(* Strings.                                                                *)
(***************************************************************************)
Nil == <<"n", "i", "l">>
True == <<"t", "r", "u", "e">>
\* The symbol of the raw-string quote.
BackQuote == "backquote"

IsPrefix(p, s) == Len(p) <= Len(s) /\ SubSeq(s, 1, Len(p)) = p

\* strings.ReplaceAll with an empty old string: new goes before every
\* symbol and after the last one.
RECURSIVE InsertAll(_, _)
InsertAll(s, new) ==
    IF s = <<>> THEN new ELSE new \o <<Head(s)>> \o InsertAll(Tail(s), new)

\* strings.ReplaceAll: the non-overlapping occurrences of old, left to right.
RECURSIVE ReplaceAll(_, _, _)
ReplaceAll(s, old, new) ==
    IF old = <<>> THEN InsertAll(s, new)
    ELSE IF Len(s) < Len(old) THEN s
    ELSE IF IsPrefix(old, s)
         THEN new \o ReplaceAll(SubSeq(s, Len(old) + 1, Len(s)), old, new)
         ELSE <<Head(s)>> \o ReplaceAll(Tail(s), old, new)

\* Contains(*mem, pointerStmt): the memo holds "<name> :=" entries and is
\* asked about "<name> := *<pointer>"; an entry answers for the statements
\* that declare its name.
Contains(m, s) == \E i \in 1..Len(m) : IsPrefix(m[i], s)

(***************************************************************************)
(* Output: one node of a capture.  A capture is the sequence of its nodes  *)
(* from the outermost to the terminal one: node i's Child is node i+1 and  *)
(* the last node's Child is nil.                                           *)
(***************************************************************************)
Output(t, vn, mkt, v, ai) ==
    [Type |-> t, VarName |-> vn, MapKeyType |-> mkt, Val |-> v, ArrIdent |-> ai]

Replacement(k, v) == [Key |-> k, Val |-> v]

\* TypeCorrections{}: ParseLine always starts from the empty correction.
TypeCorrections == [Prefix |-> <<>>, Suffix |-> <<>>]

AssignStmtTypeDefine == "Define"
AssignSTmtTypeAssign == "Assign"

AssignStmt(t, l, rh) ==
    [Stmt |-> "AssignStmt", StmtType |-> t, A |-> l, B |-> rh]

\* An assertion: A is Expected, B is Value (empty when the kind has none).
AssertStmt(t, e, v) ==
    [Stmt |-> "AssertStmt", StmtType |-> t, A |-> e, B |-> v]

\* Stmt.Replace: textual substitution in the statement's operands.
Replace(stmt, key, val) ==
    [stmt EXCEPT !.A = ReplaceAll(@, key, val), !.B = ReplaceAll(@, key, val)]

RECURSIVE ReplaceEach(_, _)
ReplaceEach(s, replacements) ==
    IF replacements = <<>> THEN s
    ELSE ReplaceEach(ReplaceAll(s, Head(replacements).Key, Head(replacements).Val),
                     Tail(replacements))

RECURSIVE ReplaceStmt(_, _)
ReplaceStmt(stmt, replacements) ==
    IF replacements = <<>> THEN stmt
    ELSE ReplaceStmt(Replace(stmt, Head(replacements).Key, Head(replacements).Val),
                     Tail(replacements))

NumericTypes ==
    {"int", "float32", "float64", "byte", "rune", "uintptr", "uint", "uint8",
     "uint16", "uint32", "uint64", "int8", "int16", "int32", "int64"}

\* Expected of a number with the type and the parentheses left out.
ExpectedOfNumber_ValOnly(typeCorrection, t, v) ==
    typeCorrection.Prefix \o v \o typeCorrection.Suffix

\* fmt.Sprintf("%s%s(%s)%s", Prefix, Type, Val, Suffix)
ExpectedOfNumber(typeCorrection, t, v) ==
    typeCorrection.Prefix \o <<t>> \o <<"(">> \o v \o <<")">> \o typeCorrection.Suffix

\* The switch of CreateAssertStmts on the terminal node's type, after the
\* replacements were applied: varName is the substituted variable name.
LeafStmts(runtimeOutput, varName, typeCorrection, resStmts) ==
    LET t == runtimeOutput.Type
        v == runtimeOutput.Val
        pre == typeCorrection.Prefix
        suf == typeCorrection.Suffix
    IN  IF t \in NumericTypes
        THEN Append(resStmts, AssertStmt("EqualValues",
                        ExpectedOfNumber(typeCorrection, t, v), varName))
        ELSE IF t = "string"
        THEN Append(resStmts, AssertStmt("EqualValues",
                        pre \o <<t>> \o <<"(", BackQuote>> \o v \o <<BackQuote, ")">> \o suf,
                        varName))
        ELSE IF t = "bool"
        THEN IF v = True
             THEN Append(resStmts, AssertStmt("True", varName, <<>>))
             ELSE Append(resStmts, AssertStmt("False", varName, <<>>))
        ELSE IF t \in {"complex64", "complex128"}
        THEN Append(resStmts, AssertStmt("EqualValues",
                        pre \o <<t>> \o v \o suf, varName))
        ELSE IF t = "pointer"
        THEN Append(resStmts, AssertStmt("Nil", varName, <<>>))
        ELSE IF t = "error"
        THEN IF v = Nil
             THEN Append(resStmts, AssertStmt("NoError", varName, <<>>))
             ELSE Append(resStmts, AssertStmt("Error", varName, <<>>))
        ELSE <<>>

CreateAssertStmts(runtimeOutput, replacements, typeCorrection, resStmts) ==
    LET varName == ReplaceEach(runtimeOutput.VarName, replacements)
        replaced == [j \in 1..Len(resStmts) |-> ReplaceStmt(resStmts[j], replacements)]
    IN  LeafStmts(runtimeOutput, varName, typeCorrection, replaced)

\* The "pointer" case without the nil test: every pointer node is dereferenced.
PointerCase_NoNilTest(data, child, resStmts, m) ==
    [resStmts |-> Append(resStmts,
                      AssignStmt(IF Contains(m, child.VarName \o <<" ", ":=">>)
                                 THEN AssignSTmtTypeAssign ELSE AssignStmtTypeDefine,
                                 child.VarName, <<"*">> \o data.VarName)),
     mem |-> Append(m, child.VarName \o <<" ", ":=">>)]

\* The "pointer" case that never records the declared name in the memo.
PointerCase_NoMemo(data, child, resStmts, m) ==
    IF data.Val # Nil
    THEN [resStmts |-> Append(resStmts,
                          AssignStmt(IF Contains(m, child.VarName \o <<" ", ":=">>)
                                     THEN AssignSTmtTypeAssign ELSE AssignStmtTypeDefine,
                                     child.VarName, <<"*">> \o data.VarName)),
          mem |-> m]
    ELSE [resStmts |-> resStmts, mem |-> m]

\* The "pointer" case of AssertStmts for a node that has a child: the
\* statements and the memo after it.
PointerCase(data, child, resStmts, m) ==
    IF data.Val # Nil
    THEN LET pointerStmt == child.VarName \o <<" ", ":=", " ", "*">> \o data.VarName
         IN  IF ~Contains(m, pointerStmt)
             THEN [resStmts |-> Append(resStmts,
                                   AssignStmt(AssignStmtTypeDefine, child.VarName,
                                              <<"*">> \o data.VarName)),
                   mem |-> Append(m, child.VarName \o <<" ", ":=">>)]
             ELSE [resStmts |-> Append(resStmts,
                                   AssignStmt(AssignSTmtTypeAssign, child.VarName,
                                              <<"*">> \o data.VarName)),
                   mem |-> m]
    ELSE [resStmts |-> resStmts, mem |-> m]

\* The "map" case that records the loop identifier but not the captured key.
MapReplacement_NoKey(data) == Replacement(data.ArrIdent, data.ArrIdent)

\* The "map" case: the replacement the node adds.
MapReplacement(data) ==
    LET x == IF data.MapKeyType = "string"
             THEN <<"\"">> \o data.Val \o <<"\"">>
             ELSE data.Val
    IN  Replacement(data.ArrIdent, x)

\* AssertStmts on the capture whose nodes are data: [stmts, mem].
RECURSIVE AssertStmts(_, _, _, _, _)
AssertStmts(data, replacements, typeCorrection, resStmts, m) ==
    LET d == Head(data)
        rest == Tail(data)
    IN  IF rest = <<>>
        THEN [stmts |-> CreateAssertStmts(d, replacements, typeCorrection, resStmts),
              mem |-> m]
        ELSE IF d.Type = "arr"
        THEN AssertStmts(rest, Append(replacements, Replacement(d.ArrIdent, d.Val)),
                         typeCorrection, resStmts, m)
        ELSE IF d.Type = "custom"
        THEN AssertStmts(rest, replacements, typeCorrection, resStmts, m)
        ELSE IF d.Type = "map"
        THEN AssertStmts(rest, Append(replacements, MapReplacement(d)),
                         typeCorrection, resStmts, m)
        ELSE IF d.Type = "pointer"
        THEN LET p == PointerCase(d, Head(rest), resStmts, m)
             IN  AssertStmts(rest, replacements, typeCorrection, p.resStmts, p.mem)
        ELSE AssertStmts(rest, replacements, typeCorrection, resStmts, m)

\* Printer.PrintStmt: the statement's source text.
PrintStmt(stmt) ==
    IF stmt.Stmt = "AssignStmt"
    THEN stmt.A \o <<" ", IF stmt.StmtType = AssignStmtTypeDefine THEN ":=" ELSE "=", " ">>
                \o stmt.B
    ELSE IF stmt.StmtType = "EqualValues"
    THEN <<"s.", stmt.StmtType, "(">> \o stmt.A \o <<", ">> \o stmt.B \o <<")">>
    ELSE <<"s.", stmt.StmtType, "(">> \o stmt.A \o <<")">>

\* ParseLine on a line whose JSON decoding left data in the Output and
\* reported err: the printed statements, the statements and the memo.
ParseLine(line, m) ==
    LET a == AssertStmts(line.data, <<>>, TypeCorrections, <<>>, m)
    IN  [res |-> [i \in 1..Len(a.stmts) |-> PrintStmt(a.stmts[i])],
         stmts |-> a.stmts,
         mem |-> a.mem]

\* SetIsValid with the element loop left out: only the lengths are compared.
SetIsValidOf_LengthOnly(rti) ==
    IF Len(rti.AssertStmts) # Len(rti.SecondRun)
    THEN [r |-> [rti EXCEPT !.IsValid = FALSE], ret |-> FALSE]
    ELSE [r |-> [rti EXCEPT !.IsValid = TRUE], ret |-> TRUE]

\* RunTimeInfo.SetIsValid: the receiver after the call and the returned value.
SetIsValidOf(rti) ==
    IF Len(rti.AssertStmts) # Len(rti.SecondRun)
    THEN [r |-> [rti EXCEPT !.IsValid = FALSE], ret |-> FALSE]
    ELSE IF \E i \in 1..Len(rti.AssertStmts) : rti.AssertStmts[i] # rti.SecondRun[i]
    THEN [r |-> [rti EXCEPT !.IsValid = FALSE], ret |-> FALSE]
    ELSE [r |-> [rti EXCEPT !.IsValid = TRUE], ret |-> TRUE]

(***************************************************************************)
(* The captures the driver feeds to the decoder.                           *)
(***************************************************************************)
NonNil == <<"0", "x", "1">>

\* Non-terminal nodes: loops, a wrapper, pointers (nil and not).
Wrappers ==
    { Output("arr", <<"y">>, "", <<"0">>, <<"i">>),
      Output("map", <<"y">>, "string", <<"i">>, <<"k">>),
      Output("map", <<"y">>, "int", <<"1">>, <<"k">>),
      Output("custom", <<"y">>, "", <<"1">>, <<>>),
      Output("pointer", <<"p">>, "", NonNil, <<>>),
      Output("pointer", <<"y">>, "", NonNil, <<>>),
      Output("pointer", <<"p">>, "", Nil, <<>>) }

LeafNames == {<<"y">>, <<"y", "[", "k", "]", "[", "i", "]">>}

\* Terminal nodes: numbers, a boolean, pointers (nil and not), errors (nil
\* and not) and a type the decoder does not know.
Leaves ==
    {Output(t, n, "", <<"1">>, <<>>) : t \in {"int", "struct"}, n \in LeafNames}
    \cup {Output("pointer", n, "", v, <<>>) : n \in LeafNames, v \in {Nil, NonNil}}
    \cup {Output("error", <<"y">>, "", v, <<>>) : v \in {Nil, <<"1">>}}
    \cup {Output("bool", <<"y">>, "", True, <<>>),
          Output("float64", <<"x">>, "", <<"4", ".", "2">>, <<>>)}

RECURSIVE WrapSeqs(_)
WrapSeqs(n) ==
    IF n = 0 THEN {<<>>}
    ELSE LET shorter == WrapSeqs(n - 1)
         IN  shorter \cup {<<w>> \o s : w \in Wrappers, s \in {x \in shorter : Len(x) = n - 1}}

Captures == {w \o <<l>> : w \in WrapSeqs(MaxWrap), l \in Leaves}

\* Lines whose JSON decoding reported an error, with what the decoder had
\* populated by then: nothing, or the fields of a complete node.
MalformedLines ==
    {[data |-> <<d>>, err |-> TRUE] :
        d \in {Output("", <<>>, "", <<>>, <<>>), Output("int", <<"y">>, "", <<"1">>, <<>>)}}

Lines == {[data |-> c, err |-> FALSE] : c \in Captures} \cup MalformedLines

\* The captured values a second execution may print in place of the first's.
OtherVals == {Nil, <<"0">>, NonNil}

\* The captures of the same probe in a second execution: the same nodes,
\* with at most one captured value changed.
Variants(line) ==
    {line} \cup
    {[line EXCEPT !.data[j].Val = v] : j \in 1..Len(line.data), v \in OtherVals}

\* Memo contents a run can have when a line is decoded: empty, or the
\* entries left by lines decoded before it.
Memos == {<<>>, <<<<"y", " ", ":=">>>>}

EmptyRunTimeInfo(panics) ==
    [IsValid |-> FALSE, Panics |-> panics, AssertStmts |-> <<>>, SecondRun |-> <<>>]

\* The synthesizer is not part of a decoding run.
SynthIdle ==
    /\ param = [Names |-> <<>>, Type |-> [k |-> "nil"]]
    /\ opts = [MaxRecursion |-> DefaultAmountRecursion]
    /\ policy = [lens |-> <<0>>, vals |-> <<"0">>,
                 deco |-> [values |-> <<>>, use |-> FALSE, index |-> 0]]
    /\ stack = <<>>
    /\ returned = [Expr |-> [k |-> "nil"], Statements |-> <<>>, Declarations |-> <<>>,
                   ChanIdents |-> <<>>]
    /\ counter = [Structs |-> <<>>, Interfaces |-> <<>>, StructMem |-> <<>>,
                  InterfaceMem |-> <<>>]
    /\ asked = [gen |-> 0, lens |-> 0, vals |-> 0]
    /\ log = <<>>
    /\ crash = "none"
    /\ assigned = [done |-> FALSE]

Init ==
    /\ r \in {EmptyRunTimeInfo(p) : p \in BOOLEAN}
    /\ mem \in Memos
    /\ calls = <<>>
    /\ ret = "none"
    /\ pc = "first"
    /\ SynthIdle

Call(line, before, out) ==
    [line |-> line, memBefore |-> before, res |-> out.res, stmts |-> out.stmts,
     memAfter |-> out.mem]

\* The first execution's capture is decoded into AssertStmts.
FirstRun ==
    /\ pc = "first"
    /\ \E line \in Lines :
         LET out == ParseLine(line, mem)
         IN  /\ r' = [r EXCEPT !.AssertStmts = out.res]
             /\ mem' = out.mem
             /\ calls' = Append(calls, Call(line, mem, out))
    /\ pc' = "second"
    /\ UNCHANGED <<ret, synthVars>>

\* The second execution's capture of the same probe is decoded into
\* SecondRun with the memo the first decoding left.
SecondRunSameMem ==
    /\ pc = "second"
    /\ \E line \in Variants(calls[1].line) :
         LET out == ParseLine(line, mem)
         IN  /\ r' = [r EXCEPT !.SecondRun = out.res]
             /\ mem' = out.mem
             /\ calls' = Append(calls, Call(line, mem, out))
    /\ pc' = "validate"
    /\ UNCHANGED <<ret, synthVars>>

\* The same with a memo of its own.
SecondRunOwnMem ==
    /\ pc = "second"
    /\ \E line \in Variants(calls[1].line), m \in Memos :
         LET out == ParseLine(line, m)
         IN  /\ r' = [r EXCEPT !.SecondRun = out.res]
             /\ mem' = out.mem
             /\ calls' = Append(calls, Call(line, m, out))
    /\ pc' = "validate"
    /\ UNCHANGED <<ret, synthVars>>

SetIsValid ==
    /\ pc = "validate"
    /\ LET out == SetIsValidOf(r)
       IN  /\ r' = out.r
           /\ ret' = out.ret
    /\ pc' = "done"
    /\ UNCHANGED <<mem, calls, synthVars>>

Next == FirstRun \/ SecondRunSameMem \/ SecondRunOwnMem \/ SetIsValid

Spec == Init /\ [][Next]_vars


(***************************************************************************)
(* The type-to-value synthesizer (package gen).                            *)
(*                                                                         *)
(* Syntax trees are records tagged by k, the name of the go/ast node.      *)
(* Names are sequences of atoms, so that a name built by concatenation or  *)
(* by changing the case of its first letter is computed, not assumed.      *)
(***************************************************************************)
Ident(name, obj) == [k |-> "Ident", Name |-> name, Obj |-> obj]
Field(names, type) == [Names |-> names, Type |-> type]
StarExpr(x) == [k |-> "StarExpr", X |-> x]
ArrayType(len, elt) == [k |-> "ArrayType", Len |-> len, Elt |-> elt]
MapType(key, value) == [k |-> "MapType", Key |-> key, Value |-> value]
ChanType(dir, value) == [k |-> "ChanType", Dir |-> dir, Value |-> value]
FuncType(params, results) ==
    [k |-> "FuncType", Params |-> params, Results |-> results]
InterfaceType(id, methods) ==
    [k |-> "InterfaceType", id |-> id, Methods |-> methods]
StructType(id, fields) == [k |-> "StructType", id |-> id, Fields |-> fields]
SelectorExpr(x, sel) == [k |-> "SelectorExpr", X |-> x, Sel |-> sel]
Ellipsis(elt) == [k |-> "Ellipsis", Elt |-> elt]
\* A type expression of a variant TypeExprToValExpr has no case for.
IndexExpr(x) == [k |-> "IndexExpr", X |-> x]
NilNode == [k |-> "nil"]

BasicLit(kind, value) == [k |-> "BasicLit", Kind |-> kind, Value |-> value]
CompositeLit(type, elts) == [k |-> "CompositeLit", Type |-> type, Elts |-> elts]
UnaryExpr(op, x) == [k |-> "UnaryExpr", Op |-> op, X |-> x]
CallExpr(fun, args) == [k |-> "CallExpr", Fun |-> fun, Args |-> args]
FuncLit(type, body) == [k |-> "FuncLit", Type |-> type, Body |-> body]
KeyValueExpr(key, value) == [k |-> "KeyValueExpr", Key |-> key, Value |-> value]
ReturnStmt(results) == [k |-> "ReturnStmt", Results |-> results]
TypeSpec(name, type) == [k |-> "TypeSpec", Name |-> name, Type |-> type]
GenDecl(specs) == [k |-> "GenDecl", Tok |-> "type", Specs |-> specs]
FuncDecl(recv, name, type, body) ==
    [k |-> "FuncDecl", Recv |-> recv, Name |-> name, Type |-> type, Body |-> body]

assignStmt(variable, value) ==
    [k |-> "AssignStmt", Lhs |-> <<variable>>, Tok |-> ":=", Rhs |-> <<value>>]

Basic(name) == Ident(<<name>>, "nil")
\* An identifier the parser has bound to a type declaration of its file.
Named(name, pkg) == Ident(<<name>>, pkg)
Slice(elt) == ArrayType(0, elt)

(***************************************************************************)
(* The packages the generator runs on: the declarations of the file under  *)
(* test ("root"), of another file of its package ("rootOther") and of an   *)
(* imported package ("ext").                                               *)
(***************************************************************************)
Unsupported == IndexExpr(Basic("int"))

RootDecls ==
    [Node |-> StructType("Node", <<Field(<<Ident(<<"Val">>, "nil")>>, Basic("int")),
                                   Field(<<Ident(<<"Next">>, "nil")>>,
                                         StarExpr(Named("Node", "root")))>>),
     Tree |-> StructType("Tree", <<Field(<<Ident(<<"L">>, "nil"),
                                           Ident(<<"R">>, "nil")>>,
                                         StarExpr(Named("Tree", "root")))>>),
     A |-> StructType("A", <<Field(<<Ident(<<"b">>, "nil")>>,
                                   StarExpr(Named("B", "root")))>>),
     B |-> StructType("B", <<Field(<<Ident(<<"As">>, "nil")>>,
                                   Slice(Named("A", "root")))>>),
     I |-> InterfaceType("I", <<Field(<<Ident(<<"Next">>, "nil")>>,
              FuncType(<<>>, <<Field(<<>>, Named("I", "root"))>>))>>),
     K |-> InterfaceType("K", <<Field(<<Ident(<<"M">>, "nil")>>,
              FuncType(<<>>, <<Field(<<>>, Named("L", "root"))>>))>>),
     L |-> InterfaceType("L", <<Field(<<>>, Named("K", "root"))>>),
     Std |-> InterfaceType("Std", <<Field(<<Ident(<<"Get">>, "nil")>>,
                FuncType(<<>>, <<Field(<<>>, Basic("int"))>>)),
              Field(<<Ident(<<"Err">>, "nil")>>,
                FuncType(<<>>, <<Field(<<Ident(<<"err">>, "nil")>>, Basic("error"))>>))>>),
     T |-> Slice(Named("T", "root")),
     P |-> StarExpr(Named("P", "root")),
     M |-> MapType(Basic("string"), Named("M", "root")),
     S |-> StructType("S", <<Field(<<Ident(<<"Self">>, "nil")>>,
                                   StarExpr(Named("S", "root"))),
                             Field(<<Ident(<<"Kids">>, "nil")>>, Named("T", "root"))>>),
     Leaf |-> StructType("Leaf", <<Field(<<Ident(<<"X">>, "nil")>>, Basic("int"))>>),
     MyInt |-> Basic("int"),
     U |-> InterfaceType("U", <<Field(<<Ident(<<"Get">>, "nil")>>,
              FuncType(<<>>, <<Field(<<>>, Unsupported)>>))>>),
     F |-> FuncType(<<Field(<<>>, Unsupported)>>, <<Field(<<>>, Basic("int"))>>),
     Holder |-> StructType("Holder",
              <<Field(<<Ident(<<"u">>, "nil")>>, Named("U", "root")),
                Field(<<Ident(<<"f">>, "nil")>>, Named("F", "root")),
                Field(<<Ident(<<"cb">>, "nil")>>,
                      FuncType(<<>>, <<Field(<<>>, Basic("int"))>>)),
                Field(<<>>, Named("Leaf", "root"))>>)]

RootOtherDecls ==
    [Far |-> StructType("Far", <<Field(<<Ident(<<"Back">>, "nil")>>,
                                       StarExpr(Named("Far", "rootOther")))>>)]

ExtDecls ==
    [Conn |-> StructType("Conn", <<Field(<<Ident(<<"Id">>, "nil")>>, Basic("int")),
                                   Field(<<Ident(<<"peer">>, "nil")>>,
                                         StarExpr(Named("Conn", "ext"))),
                                   Field(<<Ident(<<"Up">>, "nil")>>,
                                         StarExpr(Named("Conn", "ext")))>>),
     EU |-> InterfaceType("EU", <<Field(<<>>, Unsupported)>>),
     EF |-> FuncType(<<>>, <<Field(<<>>, Unsupported)>>)]

Decls(pkg) ==
    CASE pkg = "root" -> RootDecls
      [] pkg = "rootOther" -> RootOtherDecls
      [] pkg = "ext" -> ExtDecls

\* t.Obj.Decl of an identifier bound to a type declaration.
ObjDecl(t) == TypeSpec(Ident(t.Name, "nil"), Decls(t.Obj)[t.Name[1]])

(***************************************************************************)
(* The collaborators of the synthesizer: resolver, policies, probes.       *)
(***************************************************************************)
IsRoot(pkgPointer) == pkgPointer \in {"root", "rootOther"}
PkgForPointer(pkgPointer) == [Name |-> <<pkgPointer>>]

FindInCurrent(pkgPointer, name) ==
    LET other == CASE pkgPointer = "root" -> "rootOther"
                   [] pkgPointer = "rootOther" -> "root"
                   [] OTHER -> "none"
    IN  IF other # "none" /\ Len(name) = 1 /\ name[1] \in DOMAIN Decls(other)
        THEN [found |-> TRUE, expr |-> Ident(name, other), newPointer |-> other]
        ELSE [found |-> FALSE, expr |-> NilNode, newPointer |-> "none"]

FindImport(pkgPointer, pkgName, name) ==
    IF pkgName = <<"ext">> /\ Len(name) = 1 /\ name[1] \in DOMAIN ExtDecls
    THEN [found |-> TRUE, expr |-> Ident(name, "ext"), newPointer |-> "ext"]
    ELSE [found |-> FALSE, expr |-> NilNode, newPointer |-> "none"]

BasicTypes == {"int", "string", "bool", "float64"}
IsBasicLit(name) == Len(name) = 1 /\ name[1] \in BasicTypes
IsError(name) == name = <<"error">>

\* The letters whose case the name helpers change: <<lower, upper>>.
CasePairs ==
    {<<"gen", "Gen">>, <<"val", "Val">>, <<"next", "Next">>, <<"l", "L">>,
     <<"r", "R">>, <<"as", "As">>, <<"self", "Self">>, <<"kids", "Kids">>,
     <<"x", "X">>, <<"leaf", "Leaf">>, <<"back", "Back">>, <<"id", "Id">>,
     <<"up", "Up">>, <<"node", "Node">>, <<"tree", "Tree">>, <<"a", "A">>,
     <<"b", "B">>, <<"s", "S">>, <<"far", "Far">>, <<"conn", "Conn">>,
     <<"holder", "Holder">>, <<"get", "Get">>, <<"m", "M">>}
IsLower(atom) == \A p \in CasePairs : p[2] # atom
lowerCaseFirstLetter(name) ==
    IF name = <<>> \/ IsLower(name[1]) THEN name
    ELSE <<(CHOOSE p \in CasePairs : p[2] = name[1])[1]>> \o Tail(name)
Title(name) ==
    IF name = <<>> \/ \A p \in CasePairs : p[1] # name[1] THEN name
    ELSE <<(CHOOSE p \in CasePairs : p[1] = name[1])[2]>> \o Tail(name)

\* The expression with the package of `pkgPointer` in front of the names it
\* declares, as a test outside that package has to write it.
RECURSIVE CorrectTypeExprIn(_, _)
CorrectTypeExprIn(e, pkgPointer) ==
    IF IsRoot(pkgPointer) THEN e
    ELSE CASE e.k = "Ident" ->
                IF e.Obj = "nil" /\ (IsBasicLit(e.Name) \/ IsError(e.Name)) THEN e
                ELSE SelectorExpr(Ident(PkgForPointer(pkgPointer).Name, "nil"),
                                  Ident(e.Name, "nil"))
           [] e.k = "StarExpr" -> StarExpr(CorrectTypeExprIn(e.X, pkgPointer))
           [] e.k = "ArrayType" ->
                ArrayType(e.Len, CorrectTypeExprIn(e.Elt, pkgPointer))
           [] e.k = "MapType" ->
                MapType(CorrectTypeExprIn(e.Key, pkgPointer),
                        CorrectTypeExprIn(e.Value, pkgPointer))
           [] e.k = "ChanType" ->
                ChanType(e.Dir, CorrectTypeExprIn(e.Value, pkgPointer))
           [] e.k = "Ellipsis" -> Ellipsis(CorrectTypeExprIn(e.Elt, pkgPointer))
           [] e.k = "FuncType" ->
                FuncType([i \in DOMAIN e.Params |->
                             Field(e.Params[i].Names,
                                   CorrectTypeExprIn(e.Params[i].Type, pkgPointer))],
                         [i \in DOMAIN e.Results |->
                             Field(e.Results[i].Names,
                                   CorrectTypeExprIn(e.Results[i].Type, pkgPointer))])
           [] OTHER -> e
CorrectTypeExpr(e, input) == CorrectTypeExprIn(e, input.pkgPointer)

SupportedKinds ==
    {"StructType", "Ident", "StarExpr", "ArrayType", "MapType", "ChanType",
     "FuncType", "InterfaceType", "SelectorExpr", "Ellipsis"}
HasUnsupported(fields) ==
    \E i \in DOMAIN fields : fields[i].Type.k \notin SupportedKinds

\* The type behind an identifier, as far as the symbol information goes.
Resolved(e, pkgPointer) ==
    CASE e.k = "Ident" /\ e.Obj \in {"root", "rootOther", "ext"} ->
            ObjDecl(e).Type
      [] e.k = "Ident" /\ e.Obj = "nil" /\ ~IsBasicLit(e.Name) /\ ~IsError(e.Name)
            /\ FindInCurrent(pkgPointer, e.Name).found ->
            ObjDecl(FindInCurrent(pkgPointer, e.Name).expr).Type
      [] e.k = "SelectorExpr" /\ e.X.k = "Ident"
            /\ FindImport(pkgPointer, e.X.Name, e.Sel.Name).found ->
            ObjDecl(FindImport(pkgPointer, e.X.Name, e.Sel.Name).expr).Type
      [] OTHER -> e

\* An embedded entry of an interface that names no interface one can find.
UnresolvedEmbedded(m, pkgPointer) ==
    /\ m.Type.k \in {"Ident", "SelectorExpr"}
    /\ Resolved(m.Type, pkgPointer).k # "InterfaceType"

ShouldReturnForFunc(e, input) ==
    LET t == Resolved(e, input.pkgPointer)
    IN  t.k = "FuncType" /\ (HasUnsupported(t.Params) \/ HasUnsupported(t.Results))

ShouldReturnForInterface(e, input) ==
    LET t == Resolved(e, input.pkgPointer)
    IN  /\ t.k = "InterfaceType"
        /\ \E i \in DOMAIN t.Methods :
              LET m == t.Methods[i]
              IN  \/ m.Type.k \notin SupportedKinds
                  \/ m.Type.k = "FuncType"
                       /\ (HasUnsupported(m.Type.Params) \/ HasUnsupported(m.Type.Results))
                  \/ UnresolvedEmbedded(m, input.pkgPointer)

InterfaceGenDecl(input, ident) == GenDecl(<<TypeSpec(ident, StructType("impl", <<>>))>>)

GetUnnamedStructIdent(e, input) ==
    CASE e.k = "Ident" -> Ident(e.Name, "nil")
      [] e.k = "StarExpr" /\ e.X.k = "Ident" -> Ident(e.X.Name, "nil")
      [] e.k = "SelectorExpr" -> Ident(e.Sel.Name, "nil")
      [] e.k = "StarExpr" /\ e.X.k = "SelectorExpr" -> Ident(e.X.Sel.Name, "nil")
      [] OTHER -> Ident(<<"_">>, "nil")

getArrayLen(len) == len

(***************************************************************************)
(* The CycleInfo, the policies' answers and the results.                   *)
(*                                                                         *)
(* Every RecursionInput of one recursion carries the same CycleInfo maps   *)
(* (Go maps are references): the model keeps them in the variable          *)
(* `counter`.  `asked` counts how often each policy has been asked, so     *)
(* that its next answer is the next entry of the tape in `policy`.         *)
(***************************************************************************)
FreshCycleInfo ==
    [Structs |-> <<>>, Interfaces |-> <<>>, StructMem |-> <<>>, InterfaceMem |-> <<>>]

NewRecursionInput(e, varName, pkgPointer) ==
    [input |-> [e |-> e, varName |-> varName, pkgPointer |-> pkgPointer],
     counter |-> FreshCycleInfo]

Count(m, key) == IF key \in DOMAIN m THEN m[key] ELSE 0
Put(m, key, val) == (key :> val) @@ m

Event(ev, of) == [ev |-> ev, of |-> of]

Generate(a) ==
    [name |-> <<"gen", ToString(a.gen)>>, asked |-> [a EXCEPT !.gen = @ + 1]]

ArrayLen(declared, a) ==
    LET n == policy.lens[(a.lens % Len(policy.lens)) + 1]
    IN  [n |-> IF declared > 0 /\ declared < n THEN declared ELSE n,
         asked |-> [a EXCEPT !.lens = @ + 1]]
MapLen(a) ==
    [n |-> policy.lens[(a.lens % Len(policy.lens)) + 1],
     asked |-> [a EXCEPT !.lens = @ + 1]]
ValGeneratorType == <<"int">>

BasicExprToValExpr(name, a) ==
    [expr |-> BasicLit(name[1], policy.vals[(a.vals % Len(policy.vals)) + 1]),
     asked |-> [a EXCEPT !.vals = @ + 1]]

Result(expr, statements, declarations, chanIdents) ==
    [Expr |-> expr, Statements |-> statements, Declarations |-> declarations,
     ChanIdents |-> chanIdents]
\* &TypeExprToValExprRes{}
ZeroResult == Result(NilNode, <<>>, <<>>, <<>>)
EmptyResult == Result(BasicLit("", ""), <<>>, <<>>, <<>>)
\* Merge that forgets the other result's declarations.
Merge_NoDeclarations(t, other) ==
    [t EXCEPT !.Statements = @ \o other.Statements,
              !.ChanIdents = @ \o other.ChanIdents]
Merge(t, other) ==
    [t EXCEPT !.Statements = @ \o other.Statements,
              !.Declarations = @ \o other.Declarations,
              !.ChanIdents = @ \o other.ChanIdents]

ErrExprToValExpr == Result(Ident(<<"nil">>, "nil"), <<>>, <<>>, <<>>)

InterfaceNilFunc(t, input) ==
    Result(CallExpr(FuncLit(FuncType(<<>>, <<Field(<<>>, CorrectTypeExpr(t, input))>>),
                            <<ReturnStmt(<<Ident(<<"nil">>, "nil")>>)>>),
                    <<>>),
           <<>>, <<>>, <<>>)

FuncNilFunc(t, input) ==
    Result(CallExpr(CorrectTypeExpr(t, input), <<Ident(<<"nil">>, "nil")>>),
           <<>>, <<>>, <<>>)

\* The cycle test of StructExprToValExpr: `ok` is whether the memo existed
\* before this call.
StructCycleExceeded_AtLimit(count, ok) == count >= opts.MaxRecursion /\ ok
StructCycleExceeded(count, ok) == count > opts.MaxRecursion /\ ok
InterfaceCycleExceeded(count, ok) == count > opts.MaxRecursion /\ ok


(***************************************************************************)
(* The recursion, one call frame at a time.                                *)
(*                                                                         *)
(* `stack` is the goroutine's stack of the frames of the synthesizer: the  *)
(* function, where it continues, its RecursionInput and its locals.  A     *)
(* function that calls another one leaves the place it continues at in its *)
(* frame; "tail" is the place of a `return g.F(...)`, which hands the      *)
(* callee's result on unchanged.  `returned` is the value the last return       *)
(* handed to its caller.                                                   *)
(***************************************************************************)
Frame(fn, input, loc) == [fn |-> fn, pc |-> "entry", input |-> input, loc |-> loc]
Input(e, varName, pkgPointer) == [e |-> e, varName |-> varName, pkgPointer |-> pkgPointer]
Top == stack[Len(stack)]
Running(fn) == ~assigned.done /\ crash = "none" /\ stack # <<>> /\ Top.fn = fn

\* The stack once the top frame has moved on to `at` with locals `loc`.
Moved(at, loc) == [stack EXCEPT ![Len(stack)] = [@ EXCEPT !.pc = at, !.loc = loc]]
\* ... and has then called `callee`.
Called(at, loc, callee) == Append(Moved(at, loc), callee)
\* The stack once the top frame has returned, and with it every frame that
\* was waiting to hand the result on.
RECURSIVE Unwound(_)
Unwound(s) ==
    IF s # <<>> /\ s[Len(s)].pc = "tail" THEN Unwound(SubSeq(s, 1, Len(s) - 1)) ELSE s
Returned == Unwound(SubSeq(stack, 1, Len(stack) - 1))

\* One step of the synthesizer: the stack becomes `s` unless that needs
\* more stack than there is, which ends the process.
Goes(s, res, c, a, l) ==
    /\ IF Len(s) > StackLimit
       THEN /\ crash' = "stack overflow"
            /\ UNCHANGED <<stack, returned, counter, asked, log>>
       ELSE /\ stack' = s
            /\ returned' = res
            /\ counter' = c
            /\ asked' = a
            /\ log' = l
            /\ UNCHANGED crash
    /\ UNCHANGED <<param, opts, policy, assigned, decoderVars>>
\* A step that only touches the stack and the returned value.
Steps(s, res) == Goes(s, res, counter, asked, log)
\* A step at which the Go runtime panics.
Panics(why) ==
    /\ crash' = why
    /\ UNCHANGED <<stack, returned, counter, asked, log, param, opts, policy, assigned, decoderVars>>

TypeExprToValExpr ==
    /\ Running("TypeExprToValExpr")
    /\ LET input == Top.input
           t == input.e
           Handler(fn, loc) == Steps(Called("tail", <<>>, Frame(fn, input, loc)), returned)
       IN  CASE t.k = "StructType" -> Handler("UnnamedStructToValExpr", [t |-> t])
             [] t.k = "Ident" ->
                  IF t.Obj = "nil"
                  THEN Handler("IdentWithNilObjectToValExpr", [t |-> t])
                  ELSE IF t.Obj \in {"root", "rootOther", "ext"}
                  THEN Handler("TypeSpecToValExpr",
                               [t |-> t, objectDeclType |-> ObjDecl(t)])
                  ELSE Steps(Returned, EmptyResult)
             [] t.k = "StarExpr" -> Handler("StarExprToValExpr", <<>>)
             [] t.k = "ArrayType" -> Handler("ArrayExprToValExpr", <<>>)
             [] t.k = "MapType" -> Handler("MapExprToValExpr", <<>>)
             [] t.k = "ChanType" -> Handler("ChanTypeToValExpr", [t |-> t])
             [] t.k = "FuncType" -> Handler("FuncTypeToValExpr", <<>>)
             [] t.k = "InterfaceType" -> Handler("InterfaceTypeToValExpr", <<>>)
             [] t.k = "SelectorExpr" -> Handler("SelectorExprToValExpr", <<>>)
             [] t.k = "Ellipsis" ->
                  Steps(Called("tail", <<>>,
                               Frame("TypeExprToValExpr", [input EXCEPT !.e = t.Elt], <<>>)),
                        returned)
             [] OTHER -> Steps(Returned, EmptyResult)

TypeSpecToValExpr ==
    /\ Running("TypeSpecToValExpr")
    /\ LET input == Top.input
           t == Top.loc.t
           objectDeclType == Top.loc.objectDeclType
           oType == objectDeclType.Type
       IN  IF Top.pc = "entry"
           THEN IF oType.k = "StructType"
                THEN Steps(Called("tail", Top.loc,
                                  Frame("StructExprToValExpr",
                                        Input(oType, objectDeclType.Name.Name,
                                              input.pkgPointer), <<>>)),
                           returned)
                ELSE IF ShouldReturnForInterface(oType, [input EXCEPT !.e = oType])
                THEN Steps(Returned, InterfaceNilFunc(t, input))
                ELSE IF ShouldReturnForFunc(oType, [input EXCEPT !.e = oType])
                THEN Steps(Returned, FuncNilFunc(t, input))
                ELSE Steps(Called(IF oType.k = "InterfaceType" THEN "tail" ELSE "recursionResult",
                                  Top.loc,
                                  Frame("TypeExprToValExpr", [input EXCEPT !.e = oType], <<>>)),
                           returned)
           ELSE Steps(Returned,
                      [Merge(ZeroResult, returned) EXCEPT
                          !.Expr = CallExpr(CorrectTypeExpr(objectDeclType.Name, input),
                                            <<returned.Expr>>)])

IdentWithNilObjectToValExpr ==
    /\ Running("IdentWithNilObjectToValExpr")
    /\ LET input == Top.input
           t == Top.loc.t
           lit == BasicExprToValExpr(t.Name, asked)
           f == FindInCurrent(input.pkgPointer, t.Name)
       IN  IF IsBasicLit(t.Name)
           THEN Goes(Returned, Result(lit.expr, <<>>, <<>>, <<>>), counter, lit.asked, log)
           ELSE IF IsError(t.Name) THEN Steps(Returned, ErrExprToValExpr)
           ELSE Steps(Called("tail", Top.loc,
                             Frame("TypeExprToValExpr",
                                   Input(f.expr, t.Name, f.newPointer), <<>>)),
                      returned)

UnnamedStructToValExpr ==
    /\ Running("UnnamedStructToValExpr")
    /\ Steps(Called("tail", Top.loc,
                    Frame("StructFieldsToKeyValExpr", Top.input,
                          [res |-> CompositeLit(Top.loc.t, <<>>)])),
             returned)

SelectorExprToValExpr ==
    /\ Running("SelectorExprToValExpr")
    /\ LET input == Top.input
           t == input.e
           f == FindImport(input.pkgPointer, t.X.Name, t.Sel.Name)
           probe == Input(f.expr, input.varName, f.newPointer)
           result == Merge(ZeroResult, returned)
       IN  IF Top.pc = "entry"
           THEN IF t.k # "SelectorExpr" THEN Steps(Returned, EmptyResult)
                ELSE IF t.X.k # "Ident" THEN Steps(Returned, EmptyResult)
                ELSE IF ~f.found THEN Steps(Returned, EmptyResult)
                ELSE IF ShouldReturnForInterface(f.expr, probe)
                THEN Steps(Returned, InterfaceNilFunc(t, input))
                ELSE Steps(Called("recursionResult", <<>>,
                                  Frame("TypeExprToValExpr", probe, <<>>)),
                           returned)
           ELSE CASE returned.Expr.k = "CompositeLit" ->
                       Steps(Returned, [result EXCEPT !.Expr = [returned.Expr EXCEPT !.Type = t]])
                  [] returned.Expr.k = "CallExpr" ->
                       Steps(Returned, [result EXCEPT !.Expr = [returned.Expr EXCEPT !.Fun = t]])
                  [] OTHER -> Steps(Returned, [result EXCEPT !.Expr = returned.Expr])

\* The test that takes the bidirectional channels only.
notRecv_OnlyBoth(dir) == dir = "SEND|RECV"
\* if t.Dir != ast.RECV
notRecv(dir) == dir # "RECV"

ChanTypeToValExpr ==
    /\ Running("ChanTypeToValExpr")
    /\ LET t == Top.loc.t
           g == Generate(asked)
           newIdent == Ident(lowerCaseFirstLetter(g.name), "nil")
           res == CallExpr(Ident(<<"make">>, "nil"), <<t>>)
       IN  IF notRecv(t.Dir)
           THEN Goes(Returned,
                     Result(newIdent, <<assignStmt(newIdent, res)>>, <<>>,
                            <<Ident(newIdent.Name, "nil")>>),
                     counter, g.asked, log)
           ELSE Goes(Returned,
                     Result(newIdent, <<assignStmt(newIdent, res)>>, <<>>, <<>>),
                     counter, g.asked, log)

\* The memo that always takes the new declaration.
InterfaceMemStored_Overwrite(InterfaceMem, ok, t, interfaceGenDecl) ==
    Put(InterfaceMem, t.id, interfaceGenDecl)
\* if !ok { input.counter.InterfaceMem[t] = interfaceGenDecl }
InterfaceMemStored(InterfaceMem, ok, t, interfaceGenDecl) ==
    IF ok THEN InterfaceMem ELSE Put(InterfaceMem, t.id, interfaceGenDecl)

InterfaceTypeToValExpr ==
    /\ Running("InterfaceTypeToValExpr")
    /\ LET input == Top.input
           t == input.e
           lit == BasicExprToValExpr(ValGeneratorType, asked)
           count == Count(counter.Interfaces, t.id) + 1
           g == Generate(asked)
           interfaceImplIdent == Ident(Title(g.name), "nil")
           interfaceGenDecl == InterfaceGenDecl(input, interfaceImplIdent)
           ok == t.id \in DOMAIN counter.InterfaceMem
           counted == [counter EXCEPT
                          !.Interfaces = Put(@, t.id, count),
                          !.InterfaceMem = InterfaceMemStored(@, ok, t, interfaceGenDecl)]
           memoized == IF ok THEN log ELSE Append(log, Event("memo", t.id))
       IN  IF Top.pc = "entry"
           THEN IF t.k # "InterfaceType" THEN Steps(Returned, EmptyResult)
                ELSE IF t.Methods = <<>>
                THEN Goes(Returned, Result(lit.expr, <<>>, <<>>, <<>>),
                          counter, lit.asked, log)
                ELSE IF InterfaceCycleExceeded(count, ok)
                THEN Goes(Returned,
                          Result(UnaryExpr("&",
                                     CompositeLit(counter.InterfaceMem[t.id].Specs[1].Name,
                                                  <<>>)),
                                 <<>>, <<>>, <<>>),
                          counted, g.asked, Append(memoized, Event("skeleton", t.id)))
                ELSE Goes(Called("implementationResult",
                                 [interfaceImplIdent |-> interfaceImplIdent],
                                 Frame("InterfaceTypeToFuncImpl", input,
                                       [interfaceImplIdent |-> interfaceImplIdent])),
                          returned, counted, g.asked, Append(memoized, Event("expand", t.id)))
           ELSE Steps(Returned,
                      [Merge([ZeroResult EXCEPT !.Declarations =
                                 <<InterfaceGenDecl(input, Top.loc.interfaceImplIdent)>>],
                             returned)
                         EXCEPT !.Expr = UnaryExpr("&",
                                    CompositeLit(Top.loc.interfaceImplIdent, <<>>))])

InterfaceTypeToFuncImpl ==
    /\ Running("InterfaceTypeToFuncImpl")
    /\ LET input == Top.input
           t == input.e
           loc == Top.loc
           interfaceImplIdent == loc.interfaceImplIdent
           method == t.Methods[loc.i]
           next == [loc EXCEPT !.i = @ + 1]
           f == FindImport(input.pkgPointer, method.Type.X.Name, method.Type.Sel.Name)
           Nested(e) ==
             Steps(Called("nested", loc,
                          Frame("InterfaceTypeToFuncImpl", [input EXCEPT !.e = e],
                                [interfaceImplIdent |-> interfaceImplIdent])),
                   returned)
       IN  CASE Top.pc = "entry" ->
                  IF t.k # "InterfaceType" THEN Steps(Returned, EmptyResult)
                  ELSE Goes(Moved("loop", [interfaceImplIdent |-> interfaceImplIdent,
                                           i |-> 1, result |-> ZeroResult]),
                            returned, counter, asked, Append(log, Event("methods", t.id)))
             [] Top.pc = "loop" ->
                  IF loc.i > Len(t.Methods) THEN Steps(Returned, loc.result)
                  ELSE CASE method.Type.k = "FuncType" ->
                              Steps(Called("recursionResult", loc,
                                           Frame("FuncReturnListToBodyStatements",
                                                 [input EXCEPT !.e = method.Type], <<>>)),
                                    returned)
                         [] method.Type.k = "Ident" ->
                              IF method.Type.Obj = "nil" THEN Panics("nil dereference")
                              ELSE IF method.Type.Obj \in {"root", "rootOther", "ext"}
                                      /\ ObjDecl(method.Type).Type.k = "InterfaceType"
                              THEN Nested(ObjDecl(method.Type).Type)
                              ELSE Steps(Moved("loop", next), returned)
                         [] method.Type.k = "SelectorExpr" ->
                              IF method.Type.X.k # "Ident" THEN Panics("nil dereference")
                              ELSE IF ~f.found THEN Steps(Returned, EmptyResult)
                              ELSE Nested(f.expr)
                         [] OTHER -> Steps(Moved("loop", next), returned)
             [] Top.pc = "recursionResult" ->
                  IF Len(method.Names) = 0 THEN Panics("index out of range")
                  ELSE Steps(Moved("loop",
                         [next EXCEPT !.result =
                            [Merge(@, returned) EXCEPT
                               !.Statements = <<>>,
                               !.Declarations =
                                  Append(@, FuncDecl(Field(<<Ident(<<"s">>, "nil")>>,
                                                           StarExpr(interfaceImplIdent)),
                                                     method.Names[1],
                                                     CorrectTypeExpr(method.Type, input),
                                                     returned.Statements))]]),
                         returned)
             [] Top.pc = "nested" ->
                  Steps(Moved("loop", [next EXCEPT !.result = Merge(@, returned)]), returned)

FuncTypeToValExpr ==
    /\ Running("FuncTypeToValExpr")
    /\ LET input == Top.input
           t == CorrectTypeExpr(input.e, input)
       IN  IF Top.pc = "entry"
           THEN IF t.k # "FuncType" THEN Steps(Returned, EmptyResult)
                ELSE Steps(Called("recursionResult", <<>>,
                                  Frame("FuncReturnListToBodyStatements", input, <<>>)),
                           returned)
           ELSE Steps(Returned,
                      [Merge(ZeroResult, returned) EXCEPT
                          !.Statements = <<>>,
                          !.Expr = FuncLit(t, returned.Statements)])

\* The body left without its return statement.
withReturn_Missing(statements, retVars) == statements
\* result.Statements = append(result.Statements, &ast.ReturnStmt{Results: retVars})
withReturn(statements, retVars) == Append(statements, ReturnStmt(retVars))

FuncReturnListToBodyStatements ==
    /\ Running("FuncReturnListToBodyStatements")
    /\ LET input == Top.input
           t == input.e
           loc == IF Top.pc = "entry"
                  THEN [i |-> 1, j |-> 0, result |-> ZeroResult, retVars |-> <<>>]
                  ELSE Top.loc
           res == t.Results[loc.i]
           \* how often ReturnFieldToStmt is called for this result
           times == IF Len(res.Names) = 0 THEN 1 ELSE Len(res.Names)
       IN  CASE Top.pc = "entry" /\ t.k # "FuncType" -> Steps(Returned, EmptyResult)
             [] Top.pc = "recursionResult" ->
                  Steps(Moved("loop",
                              [i |-> IF loc.j + 1 < times THEN loc.i ELSE loc.i + 1,
                               j |-> IF loc.j + 1 < times THEN loc.j + 1 ELSE 0,
                               result |-> Merge(loc.result, returned),
                               retVars |-> Append(loc.retVars, returned.Expr)]),
                        returned)
             [] OTHER ->
                  IF loc.i > Len(t.Results)
                  THEN Steps(Returned,
                             [loc.result EXCEPT
                                 !.Statements = withReturn(@, loc.retVars)])
                  ELSE Steps(Called("recursionResult", loc,
                                    Frame("ReturnFieldToStmt", input, [res |-> res])),
                             returned)

ReturnFieldToStmt ==
    /\ Running("ReturnFieldToStmt")
    /\ LET input == Top.input
           res == Top.loc.res
           g == Generate(asked)
           resName == lowerCaseFirstLetter(g.name)
           result == [ZeroResult EXCEPT !.Expr = Ident(Top.loc.resName, "nil")]
       IN  IF Top.pc = "entry"
           THEN Goes(Called("recursionResult", [res |-> res, resName |-> resName],
                            Frame("TypeExprToValExpr",
                                  Input(res.Type, resName, input.pkgPointer), <<>>)),
                     returned, counter, g.asked, log)
           ELSE Steps(Returned,
                      [Merge(result, returned) EXCEPT !.Statements =
                          Append(@, assignStmt(result.Expr, returned.Expr))])

ArrayExprToValExpr ==
    /\ Running("ArrayExprToValExpr")
    /\ LET input == Top.input
           t == input.e
           loc == Top.loc
           arrayLenToUse == ArrayLen(getArrayLen(t.Len), asked)
       IN  CASE Top.pc = "entry" ->
                  IF t.k # "ArrayType" THEN Steps(Returned, EmptyResult)
                  ELSE Goes(Moved("loop", [arrayLenToUse |-> arrayLenToUse.n, i |-> 0,
                                           result |-> ZeroResult, exprRes |-> <<>>,
                                           \* history: input.counter before the loop
                                           before |-> counter]),
                            returned, counter, arrayLenToUse.asked, log)
             [] Top.pc = "loop" ->
                  IF loc.i < loc.arrayLenToUse
                  THEN Steps(Called("recursionResult", loc,
                                    Frame("TypeExprToValExpr", [input EXCEPT !.e = t.Elt],
                                          <<>>)),
                             returned)
                  ELSE Steps(Returned,
                             [loc.result EXCEPT !.Expr =
                                 CompositeLit(ArrayType(t.Len, CorrectTypeExpr(t.Elt, input)),
                                              loc.exprRes)])
             [] Top.pc = "recursionResult" ->
                  Steps(Moved("loop", [loc EXCEPT !.result = Merge(@, returned),
                                                  !.exprRes = Append(@, returned.Expr),
                                                  !.i = @ + 1]),
                        returned)

IsDuplExpr(seen, expr) == \E i \in DOMAIN seen : seen[i] = expr
\* isDupl := duplCheck.IsDuplExpr(keyRecursionResult.Expr)
isDupl_Never(duplCheck, keyExpr) == FALSE
isDupl(duplCheck, keyExpr) == IsDuplExpr(duplCheck, keyExpr)

MapExprToValExpr ==
    /\ Running("MapExprToValExpr")
    /\ LET input == Top.input
           t == input.e
           loc == Top.loc
           mapLen == MapLen(asked)
       IN  CASE Top.pc = "entry" ->
                  IF t.k # "MapType" THEN Steps(Returned, EmptyResult)
                  ELSE Goes(Moved("loop", [mapLen |-> mapLen.n, i |-> 0,
                                           result |-> ZeroResult, elts |-> <<>>,
                                           duplCheck |-> <<>>,
                                           keyRecursionResult |-> ZeroResult,
                                           \* history: the keys tried so far
                                           attempts |-> <<>>]),
                            returned, counter, mapLen.asked, log)
             [] Top.pc = "loop" ->
                  IF loc.i < loc.mapLen
                  THEN Steps(Called("keyRecursionResult", loc,
                                    Frame("TypeExprToValExpr", [input EXCEPT !.e = t.Key],
                                          <<>>)),
                             returned)
                  ELSE Steps(Returned,
                             [loc.result EXCEPT !.Expr =
                                 CompositeLit(MapType(CorrectTypeExpr(t.Key, input),
                                                      CorrectTypeExpr(t.Value, input)),
                                              loc.elts)])
             [] Top.pc = "keyRecursionResult" ->
                  IF isDupl(loc.duplCheck, returned.Expr)
                  THEN Steps(Moved("loop", [loc EXCEPT !.i = @ + 1,
                                                       !.attempts = Append(@, returned.Expr)]),
                             returned)
                  ELSE Steps(Called("valRecursionInput",
                                    [loc EXCEPT !.duplCheck = Append(@, returned.Expr),
                                                !.attempts = Append(@, returned.Expr),
                                                !.keyRecursionResult = returned,
                                                !.result = Merge(@, returned)],
                                    Frame("TypeExprToValExpr", [input EXCEPT !.e = t.Value],
                                          <<>>)),
                             returned)
             [] Top.pc = "valRecursionInput" ->
                  Steps(Moved("loop",
                              [loc EXCEPT !.result = Merge(@, returned),
                                          !.elts = Append(@,
                                              KeyValueExpr(loc.keyRecursionResult.Expr,
                                                           returned.Expr)),
                                          !.i = @ + 1]),
                        returned)

\* The temporary's assignment put before the pointee's statements.
withTempAssign_First(statements, tempAssignStmt) == <<tempAssignStmt>> \o statements
\* result.Statements = append(result.Statements, tempAssignStmt)
withTempAssign(statements, tempAssignStmt) == Append(statements, tempAssignStmt)

StarExprToValExpr ==
    /\ Running("StarExprToValExpr")
    /\ LET input == Top.input
           t == input.e
           g == Generate(asked)
           tempVarName == lowerCaseFirstLetter(input.varName) \o g.name
           identTemp == Ident(Top.loc.tempVarName, "nil")
       IN  IF Top.pc = "entry"
           THEN IF t.k # "StarExpr" THEN Steps(Returned, EmptyResult)
                ELSE Goes(Called("recursionResult", [tempVarName |-> tempVarName],
                                 Frame("TypeExprToValExpr",
                                       Input(t.X, tempVarName, input.pkgPointer), <<>>)),
                          returned, counter, g.asked, log)
           ELSE Steps(Returned,
                      [Merge(ZeroResult, returned) EXCEPT
                          !.Expr = UnaryExpr("&", identTemp),
                          !.Statements =
                             withTempAssign(@, assignStmt(identTemp, returned.Expr))])

StructExprToValExpr ==
    /\ Running("StructExprToValExpr")
    /\ LET input == Top.input
           structExpr == input.e
           ident == CorrectTypeExpr(Ident(input.varName, "nil"), input)
           res == CompositeLit(ident, <<>>)
           ok == structExpr.id \in DOMAIN counter.StructMem
           name == IF ~IsRoot(input.pkgPointer)
                   THEN input.varName \o PkgForPointer(input.pkgPointer).Name
                   ELSE input.varName
           count == Count(counter.Structs, name) + 1
           counted == [counter EXCEPT
                          !.StructMem = IF ok THEN @
                                        ELSE Put(@, structExpr.id, CompositeLit(ident, <<>>)),
                          !.Structs = Put(@, name, count)]
           memoized == IF ok THEN log ELSE Append(log, Event("memo", structExpr.id))
       IN  IF structExpr.k # "StructType" THEN Steps(Returned, EmptyResult)
           ELSE IF StructCycleExceeded(count, ok)
           THEN Goes(Returned, Result(counter.StructMem[structExpr.id], <<>>, <<>>, <<>>),
                     counted, asked, Append(memoized, Event("skeleton", structExpr.id)))
           ELSE Goes(Called("tail", <<>>,
                            Frame("StructFieldsToKeyValExpr", input, [res |-> res])),
                     returned, counted, asked, Append(memoized, Event("expand", structExpr.id)))

StructFieldsToKeyValExpr ==
    /\ Running("StructFieldsToKeyValExpr")
    /\ LET input == Top.input
           structExpr == input.e
           fields == structExpr.Fields
           \* Where the two loops are: at field at[1], in its unnamed case
           \* (at[2] = 0) or at its name at[2].
           Norm(i, j) == IF i <= Len(fields) /\ j = 0 /\ Len(fields[i].Names) > 0
                         THEN <<i, 1>> ELSE <<i, j>>
           After(i, j) == IF j >= Len(fields[i].Names) THEN Norm(i + 1, 0) ELSE <<i, j + 1>>
           loc == Top.loc
           i == loc.at[1]
           j == loc.at[2]
           field == fields[i]
           n == IF j = 0 THEN GetUnnamedStructIdent(field.Type, input) ELSE field.Names[j]
           unexported == ~IsRoot(input.pkgPointer) /\ IsLower(n.Name[1])
           cantGen == j > 0 /\ ShouldReturnForFunc(field.Type, [input EXCEPT !.e = field.Type])
       IN  CASE Top.pc = "entry" ->
                  IF structExpr.k # "StructType" THEN Steps(Returned, EmptyResult)
                  ELSE Goes(Moved("loop", [res |-> loc.res, at |-> Norm(1, 0),
                                           result |-> ZeroResult, elts |-> <<>>]),
                            returned, counter, asked, Append(log, Event("fields", structExpr.id)))
             [] Top.pc = "loop" ->
                  IF i > Len(fields)
                  THEN Steps(Returned,
                             [loc.result EXCEPT !.Expr = [loc.res EXCEPT !.Elts = loc.elts]])
                  ELSE IF unexported \/ cantGen
                  THEN Steps(Moved("loop", [loc EXCEPT !.at = After(i, j)]), returned)
                  ELSE Steps(Called("recursionResult", loc,
                                    Frame("TypeExprToValExpr",
                                          Input(field.Type, n.Name, input.pkgPointer), <<>>)),
                             returned)
             [] Top.pc = "recursionResult" ->
                  Steps(Moved("loop",
                              [loc EXCEPT !.result = Merge(@, returned),
                                          !.elts = Append(@, KeyValueExpr(Ident(n.Name, "nil"),
                                                                          returned.Expr)),
                                          !.at = After(i, j)]),
                        returned)

\* What the Manual Override Store holds for the parameter and what the
\* selection policy answers.
DecoVal(call) == [Call |-> call]
HasVal == Len(policy.deco.values) > 0
GetVal == policy.deco.values
HasReceiverVal == Len(policy.deco.receiver) > 0
GetReceiverVal == policy.deco.receiver
DecoratorVal == policy.deco.use
DecoratorIndex(n) == policy.deco.index
\* The test that never takes the stored values.
useDecorator_Never(hasVal) == FALSE
\* if hasVal && g.Opts.ValGenerator.DecoratorVal()
useDecorator(hasVal) == hasVal /\ DecoratorVal

FieldToAssignRes(idents, declarations, statements, chanIdents) ==
    [Idents |-> idents, Declarations |-> declarations, Statements |-> statements,
     ChanIdents |-> chanIdents]

\* The frame of a call FieldToAssignStmt(p, funcName, pointer).
FieldToAssignStmtCall(p, pointer) ==
    Frame("FieldToAssignStmt", Input(NilNode, <<>>, pointer), [p |-> p])

FieldToAssignStmt ==
    /\ Running("FieldToAssignStmt")
    /\ LET p == Top.loc.p
           pointer == Top.input.pkgPointer
           loc == IF Top.pc = "entry"
                  THEN [p |-> p, i |-> 1, newIdent |-> NilNode,
                        res |-> FieldToAssignRes(<<>>, <<>>, <<>>, <<>>)]
                  ELSE Top.loc
           g == Generate(asked)
           newIdent == Ident(lowerCaseFirstLetter(g.name), "nil")
           i0 == NewRecursionInput(p.Type, newIdent.Name, pointer)
       IN  CASE Top.pc = "recursionResult" ->
                  Steps(Moved("loop",
                              [loc EXCEPT
                                 !.i = @ + 1,
                                 !.res = FieldToAssignRes(
                                    Append(@.Idents, loc.newIdent),
                                    @.Declarations \o returned.Declarations,
                                    Append(@.Statements \o returned.Statements,
                                           assignStmt(loc.newIdent, returned.Expr)),
                                    @.ChanIdents \o returned.ChanIdents)]),
                        returned)
             [] Top.pc # "recursionResult" /\ loc.i > Len(p.Names) ->
                  \* the result goes to GetFuncReceiverStmts, or is the outcome
                  /\ assigned' = [done |-> Len(stack) = 1, res |-> loc.res]
                  /\ stack' = SubSeq(stack, 1, Len(stack) - 1)
                  /\ UNCHANGED <<returned, counter, asked, log, crash, param, opts, policy,
                                 decoderVars>>
             [] OTHER ->
                  IF useDecorator(HasVal)
                  THEN Goes(Moved("loop",
                                  [loc EXCEPT
                                     !.i = @ + 1,
                                     !.res.Idents = Append(@, newIdent),
                                     !.res.Statements =
                                        Append(@, assignStmt(newIdent,
                                           GetVal[DecoratorIndex(Len(GetVal)) + 1].Call))]),
                            returned, counter, g.asked, log)
                  ELSE Goes(Called("recursionResult", [loc EXCEPT !.newIdent = newIdent],
                                   Frame("TypeExprToValExpr", i0.input, <<>>)),
                            returned, i0.counter, g.asked, log)

AppendRes(res, otherRes) ==
    FieldToAssignRes(res.Idents \o otherRes.Idents,
                     res.Declarations \o otherRes.Declarations,
                     res.Statements \o otherRes.Statements,
                     res.ChanIdents \o otherRes.ChanIdents)

FieldList(list) == [List |-> list]
GetFuncReceiverStmtsCall(recv, pointer) ==
    Frame("GetFuncReceiverStmts", Input(NilNode, <<>>, pointer), [recv |-> recv])

GetFuncReceiverStmts ==
    /\ Running("GetFuncReceiverStmts")
    /\ LET recv == Top.loc.recv
           pointer == Top.input.pkgPointer
           loc == IF Top.pc = "entry"
                  THEN [recv |-> recv, i |-> 1,
                        result |-> FieldToAssignRes(<<>>, <<>>, <<>>, <<>>)]
                  ELSE Top.loc
           g == Generate(asked)
           newIdent == Ident(lowerCaseFirstLetter(g.name), "nil")
           values == GetReceiverVal
           Finishes(result, a) ==
               /\ assigned' = [done |-> TRUE, res |-> result]
               /\ stack' = <<>>
               /\ asked' = a
               /\ UNCHANGED <<returned, counter, log, crash, param, opts, policy,
                              decoderVars>>
       IN  CASE Top.pc = "entry" /\ recv = NilNode -> Finishes(loc.result, asked)
             [] Top.pc = "entry" /\ recv # NilNode /\ useDecorator(HasReceiverVal) ->
                  Finishes(FieldToAssignRes(
                              <<newIdent>>, <<>>,
                              <<assignStmt(newIdent,
                                           values[DecoratorIndex(Len(values)) + 1].Call)>>,
                              <<>>),
                           g.asked)
             [] Top.pc = "appendRes" ->
                  Steps(Moved("loop", [loc EXCEPT !.result = AppendRes(@, assigned.res),
                                                  !.i = @ + 1]),
                        returned)
             [] OTHER ->
                  IF loc.i > Len(recv.List) THEN Finishes(loc.result, asked)
                  ELSE Steps(Called("appendRes", loc,
                                    FieldToAssignStmtCall(recv.List[loc.i], pointer)),
                             returned)

(***************************************************************************)
(* The parameters, options and policies a synthesis is run on.             *)
(***************************************************************************)
RootNames ==
    {"Node", "Tree", "A", "B", "I", "K", "L", "Std", "T", "P", "M", "S", "Leaf",
     "MyInt", "U", "F", "Holder"}

InlineU ==
    InterfaceType("inlineU", <<Field(<<Ident(<<"Get">>, "nil")>>,
                                     FuncType(<<>>, <<Field(<<>>, Unsupported)>>))>>)
InlineEmb == InterfaceType("inlineEmb", <<Field(<<>>, Basic("Lost"))>>)
InlineF == FuncType(<<Field(<<>>, Unsupported)>>, <<Field(<<>>, Basic("int"))>>)

ParamTypes ==
    {Named(n, "root") : n \in RootNames}
    \cup {Basic("int"), Basic("error"), Basic("Far"), Basic("Lost"),
          Ident(<<"v">>, "var"),
          StarExpr(Named("Node", "root")), StarExpr(StarExpr(Basic("int"))),
          Slice(Named("Leaf", "root")), ArrayType(2, Basic("int")),
          MapType(Basic("int"), Basic("string")),
          MapType(Basic("string"), Named("Leaf", "root")),
          ChanType("SEND|RECV", Basic("int")), ChanType("RECV", Basic("int")),
          ChanType("SEND", Basic("int")),
          FuncType(<<>>, <<>>),
          FuncType(<<>>, <<Field(<<Ident(<<"n">>, "nil"), Ident(<<"m">>, "nil")>>,
                                 Basic("int")),
                           Field(<<>>, ChanType("SEND|RECV", Basic("int")))>>),
          InterfaceType("any", <<>>),
          InterfaceType("inline", <<Field(<<Ident(<<"C">>, "nil")>>,
              FuncType(<<>>, <<Field(<<>>, ChanType("SEND", Basic("int")))>>))>>),
          InterfaceType("noName", <<Field(<<>>, FuncType(<<>>, <<>>))>>),
          InlineU, InlineEmb, InlineF,
          StructType("anon", <<Field(<<Ident(<<"x">>, "nil")>>, Basic("int")),
                               Field(<<Ident(<<"u">>, "nil")>>, InlineU)>>),
          SelectorExpr(Ident(<<"ext">>, "nil"), Ident(<<"Conn">>, "nil")),
          SelectorExpr(Ident(<<"ext">>, "nil"), Ident(<<"EU">>, "nil")),
          SelectorExpr(Ident(<<"ext">>, "nil"), Ident(<<"EF">>, "nil")),
          SelectorExpr(Ident(<<"ext">>, "nil"), Ident(<<"Lost">>, "nil")),
          SelectorExpr(Unsupported, Ident(<<"Conn">>, "nil")),
          Ellipsis(Basic("int")), Unsupported}

\* The parameters: one name each, and a few with two names or none.
Params ==
    {Field(<<Ident(<<"p">>, "nil")>>, t) : t \in ParamTypes}
    \cup {Field(<<Ident(<<"p">>, "nil"), Ident(<<"q">>, "nil")>>, t) :
             t \in {Named("Node", "root"), Basic("int")}}
    \cup {Field(<<>>, Basic("int"))}

LenTapes == {<<0>>, <<1>>, <<2>>, <<3>>, <<1, 0>>, <<2, 1>>}
ValTapes == {<<"0">>, <<"0", "1">>}
NoDeco == [values |-> <<>>, receiver |-> <<>>, use |-> FALSE, index |-> 0]
Decos ==
    {[values |-> <<DecoVal(BasicLit("int", "7")), DecoVal(BasicLit("int", "9"))>>,
      receiver |-> <<>>, use |-> u, index |-> i] : u \in BOOLEAN, i \in {0, 1}}
    \cup {[values |-> <<>>, receiver |-> <<>>, use |-> TRUE, index |-> 0]}

\* The receivers, named r, and what the store may hold for a method: values
\* for the receiver, values for the name r, both or neither.
Receivers ==
    {Field(<<Ident(<<"r">>, "nil")>>, t) :
        t \in {StarExpr(Named("Leaf", "root")), Named("Leaf", "root")}}
ReceiverDecos ==
    {[values |-> v, receiver |-> w, use |-> u, index |-> i] :
        v \in {<<>>, <<DecoVal(BasicLit("int", "7")), DecoVal(BasicLit("int", "9"))>>},
        w \in {<<>>, <<DecoVal(CompositeLit(Ident(<<"Leaf">>, "nil"), <<>>)),
                       DecoVal(UnaryExpr("&", CompositeLit(Ident(<<"Leaf">>, "nil"),
                                                          <<>>)))>>},
        u \in BOOLEAN, i \in {0, 1}}

DecoderIdle ==
    /\ r = EmptyRunTimeInfo(FALSE)
    /\ mem = <<>>
    /\ calls = <<>>
    /\ ret = "none"
    /\ pc = "idle"

SynthInit ==
    /\ opts \in [MaxRecursion : 0..MaxMaxRecursion]
    /\ \/ /\ param \in Params
          /\ \/ policy \in [lens : LenTapes, vals : ValTapes, deco : {NoDeco}]
             \/ policy \in [lens : {<<1>>}, vals : {<<"0">>}, deco : Decos]
          /\ stack = <<FieldToAssignStmtCall(param, "root")>>
       \/ /\ param \in Receivers
          /\ policy \in [lens : {<<1>>}, vals : {<<"0">>}, deco : ReceiverDecos]
          /\ \E recv \in {NilNode, FieldList(<<param>>)} :
                stack = <<GetFuncReceiverStmtsCall(recv, "root")>>
    /\ returned = ZeroResult
    /\ counter = FreshCycleInfo
    /\ asked = [gen |-> 0, lens |-> 0, vals |-> 0]
    /\ log = <<>>
    /\ crash = "none"
    /\ assigned = [done |-> FALSE]
    /\ DecoderIdle

SynthNext ==
    \/ GetFuncReceiverStmts
    \/ FieldToAssignStmt
    \/ TypeExprToValExpr
    \/ TypeSpecToValExpr
    \/ IdentWithNilObjectToValExpr
    \/ UnnamedStructToValExpr
    \/ SelectorExprToValExpr
    \/ InterfaceTypeToValExpr
    \/ InterfaceTypeToFuncImpl
    \/ ChanTypeToValExpr
    \/ FuncTypeToValExpr
    \/ FuncReturnListToBodyStatements
    \/ ReturnFieldToStmt
    \/ ArrayExprToValExpr
    \/ MapExprToValExpr
    \/ StarExprToValExpr
    \/ StructExprToValExpr
    \/ StructFieldsToKeyValExpr

SynthSpec == SynthInit /\ [][SynthNext]_vars


(***************************************************************************)
(* Claims.                                                                 *)
(***************************************************************************)
SameLists(a, b) == Len(a) = Len(b) /\ \A i \in 1..Len(a) : a[i] = b[i]

\* C1: SetIsValid returns true and sets IsValid exactly when AssertStmts and
\* SecondRun have the same length and agree at every index, returns false
\* and clears IsValid otherwise, and leaves AssertStmts, SecondRun and
\* Panics as they were.
C1_SetIsValid ==
    [][pc = "validate" =>
        /\ ret' = SameLists(r.AssertStmts, r.SecondRun)
        /\ r'.IsValid = SameLists(r.AssertStmts, r.SecondRun)
        /\ r'.AssertStmts = r.AssertStmts
        /\ r'.SecondRun = r.SecondRun
        /\ r'.Panics = r.Panics]_vars

\* SetIsValid has rejected two lists of the same length that agree at the
\* first index and differ at a later one.
C1_Witness ==
    /\ pc = "done"
    /\ ret = FALSE
    /\ ~r.IsValid
    /\ Len(r.AssertStmts) = Len(r.SecondRun)
    /\ Len(r.AssertStmts) >= 2
    /\ r.AssertStmts[1] = r.SecondRun[1]
    /\ r.Panics


(***************************************************************************)
(* Vocabulary of the decoder's claims.                                     *)
(***************************************************************************)
CallIdx == 1..Len(calls)
Nodes(c) == calls[c].line.data
Leaf(c) == Nodes(c)[Len(Nodes(c))]

\* The non-terminal pointer nodes whose captured value is not nil.
DerefNodes(c) ==
    {j \in 1..(Len(Nodes(c)) - 1) : Nodes(c)[j].Type = "pointer" /\ Nodes(c)[j].Val # Nil}
NilPointerNodes(c) ==
    {j \in 1..(Len(Nodes(c)) - 1) : Nodes(c)[j].Type = "pointer" /\ Nodes(c)[j].Val = Nil}
LoopNodes(c) ==
    {j \in 1..(Len(Nodes(c)) - 1) : Nodes(c)[j].Type \in {"arr", "map"}}

\* The position, among the emitted statements, of the one node j stands for.
Rank(c, j) == Cardinality({i \in DerefNodes(c) : i <= j})

RecognizedTypes ==
    NumericTypes \cup {"string", "bool", "complex64", "complex128", "pointer", "error"}

\* The replacements of the loop nodes 1..n of call c, outermost first.
RECURSIVE LoopReplacements(_, _)
LoopReplacements(c, n) ==
    IF n = 0 THEN <<>>
    ELSE LET d == Nodes(c)[n]
             before == LoopReplacements(c, n - 1)
         IN  IF d.Type = "arr" THEN Append(before, Replacement(d.ArrIdent, d.Val))
             ELSE IF d.Type = "map"
             THEN Append(before, Replacement(d.ArrIdent,
                            IF d.MapKeyType = "string"
                            THEN <<"\"">> \o d.Val \o <<"\"">> ELSE d.Val))
             ELSE before

Occurs(key, s) == \E i \in 1..Len(s) : IsPrefix(key, SubSeq(s, i, Len(s)))

HasEntry(m, name) == \E i \in 1..Len(m) : m[i] = name \o <<" ", ":=">>

\* C5 as stated: two decodings of the same capture give the same statement
\* list and the validator accepts, whatever memo each decoding starts from.
C5_Original ==
    (pc = "done" /\ calls[2].line = calls[1].line) =>
        (r.AssertStmts = r.SecondRun /\ ret = TRUE)

\* The two memos answer alike for the child name of every dereferenced
\* pointer node of call c's capture.
MemosAgree(c, m1, m2) ==
    \A j \in DerefNodes(c) :
        HasEntry(m1, Nodes(c)[j + 1].VarName) <=> HasEntry(m2, Nodes(c)[j + 1].VarName)

\* C5 amended: two decodings of the same capture give the same statement
\* list, and the validator accepts, when the memos they start from agree on
\* the child names of the capture's non-nil pointer nodes; when the second
\* decoding starts from the memo the first one left and the first emitted a
\* declaring assignment, the second emits a re-assignment in its place and
\* the validator rejects.
C5_SameCapture ==
    (pc = "done" /\ calls[2].line = calls[1].line) =>
        /\ MemosAgree(1, calls[1].memBefore, calls[2].memBefore)
              => (r.AssertStmts = r.SecondRun /\ ret = TRUE)
        /\ ( /\ calls[2].memBefore = calls[1].memAfter
             /\ \E i \in 1..Len(calls[1].stmts) :
                    calls[1].stmts[i].StmtType = AssignStmtTypeDefine )
              => (ret = FALSE /\ ~r.IsValid)

\* The same capture was decoded from two different memos that agree on its
\* pointer's child name; both decodings declared it and the validator accepted.
C5_Witness ==
    /\ pc = "done"
    /\ calls[2].line = calls[1].line
    /\ calls[1].memBefore # calls[2].memBefore
    /\ DerefNodes(1) # {}
    /\ \E i \in 1..Len(calls[1].stmts) : calls[1].stmts[i].StmtType = AssignStmtTypeDefine
    /\ ret = TRUE

\* Call 2's capture is call 1's with the captured value of map node j changed.
OnlyMapValDiffers(j) ==
    /\ j \in 1..(Len(Nodes(1)) - 1)
    /\ Nodes(1)[j].Type = "map"
    /\ Nodes(2)[j].Val # Nodes(1)[j].Val
    /\ calls[2].line = [calls[1].line EXCEPT !.data[j].Val = Nodes(2)[j].Val]

\* C6 as stated: captures that differ only in a map-loop node's captured
\* value decode to different lists, and the validator rejects.
C6_Original ==
    (pc = "done" /\ \E j \in 1..Len(Nodes(1)) : OnlyMapValDiffers(j)) =>
        (r.AssertStmts # r.SecondRun /\ ret = FALSE)

\* Map node j is the innermost loop node, its identifier still occurs in
\* the terminal node's variable name when its replacement is applied, and
\* the terminal node's type is one the decoder knows.
MapKeyReachesLeaf(j) ==
    /\ \A i \in LoopNodes(1) : i <= j
    /\ Occurs(Nodes(1)[j].ArrIdent, ReplaceEach(Leaf(1).VarName, LoopReplacements(1, j - 1)))
    /\ Leaf(1).Type \in RecognizedTypes

\* C6 amended: captures that differ only in the captured value of a
\* map-loop node decode to lists that differ in their last statement (the
\* assertion), and the validator rejects, provided the terminal node's type
\* is known to the decoder, no array- or map-loop node lies below the map
\* node, and the map node's identifier occurs in the terminal node's
\* variable name when its replacement is applied.
C6_MapKeyDiffers ==
    pc = "done" =>
        \A j \in 1..Len(Nodes(1)) :
            (OnlyMapValDiffers(j) /\ MapKeyReachesLeaf(j)) =>
                /\ Len(r.AssertStmts) = Len(r.SecondRun)
                /\ Len(r.AssertStmts) >= 1
                /\ r.AssertStmts[Len(r.AssertStmts)] # r.SecondRun[Len(r.SecondRun)]
                /\ ret = FALSE
                /\ ~r.IsValid

\* Two captures that differ only in a string-keyed map node's value were
\* decoded from the same memo, under an enclosing loop, and rejected.
C6_Witness ==
    /\ pc = "done"
    /\ \E j \in 1..Len(Nodes(1)) :
          /\ OnlyMapValDiffers(j)
          /\ MapKeyReachesLeaf(j)
          /\ Nodes(1)[j].MapKeyType = "string"
          /\ j = 2
    /\ calls[1].memBefore = calls[2].memBefore
    /\ ret = FALSE

\* C7: in a run sharing one memo, the first non-nil pointer node with child
\* variable name y emits a declaring assignment, every later one with the
\* same child name emits a re-assignment, and a node with another child
\* name is not affected by y's entry.  (memBefore holds the entries of the
\* lines decoded earlier in the run.)
C7_DeclareOnce ==
    \A c \in CallIdx : \A j \in DerefNodes(c) :
        LET name == Nodes(c)[j + 1].VarName
            first == /\ ~HasEntry(calls[c].memBefore, name)
                     /\ \A i \in DerefNodes(c) : i < j => Nodes(c)[i + 1].VarName # name
        IN  /\ Len(calls[c].stmts) >= Rank(c, j)
            /\ calls[c].stmts[Rank(c, j)].Stmt = "AssignStmt"
            /\ calls[c].stmts[Rank(c, j)].StmtType =
                   (IF first THEN AssignStmtTypeDefine ELSE AssignSTmtTypeAssign)

\* C8: a pointer node with a captured value other than nil and no child
\* aborts the decoding of its capture: the statement list is empty, with no
\* "is nil" assertion in it.
C8_NonNilPointerLeafAborts ==
    \A c \in CallIdx :
        (Leaf(c).Type = "pointer" /\ Leaf(c).Val # Nil) => calls[c].stmts = <<>>

\* C9: a capture whose terminal node is a pointer with the nil value
\* decodes to exactly one "is nil" assertion, on the terminal node's
\* variable, as the last statement; every other statement is the
\* dereference of a non-nil pointer node that has a child, so neither the
\* terminal pointer nor a nil pointer node with a child contributes one.
C9_NilPointerLeaf ==
    \A c \in CallIdx :
        (Leaf(c).Type = "pointer" /\ Leaf(c).Val = Nil) =>
            LET st == calls[c].stmts
            IN  /\ Len(st) = Cardinality(DerefNodes(c)) + 1
                /\ st[Len(st)] =
                       AssertStmt("Nil",
                           ReplaceEach(Leaf(c).VarName,
                                       LoopReplacements(c, Len(Nodes(c)) - 1)), <<>>)
                /\ LoopNodes(c) = {} => st[Len(st)].A = Leaf(c).VarName
                /\ \A i \in 1..(Len(st) - 1) :
                       /\ st[i].Stmt = "AssignStmt"
                       /\ \E j \in DerefNodes(c) :
                              /\ Rank(c, j) = i
                              /\ st[i].B = <<"*">> \o Nodes(c)[j].VarName

\* A nil pointer node with a child, above a nil pointer terminal node, was
\* decoded to the single "is nil" assertion.
C9_Witness ==
    \E c \in CallIdx :
        /\ Leaf(c).Type = "pointer" /\ Leaf(c).Val = Nil
        /\ NilPointerNodes(c) # {}
        /\ DerefNodes(c) = {}
        /\ Len(calls[c].stmts) = 1
        /\ calls[c].stmts[1].StmtType = "Nil"

(***************************************************************************)
(* Claims about the type-to-value synthesizer.                             *)
(***************************************************************************)
\* How often `ev` has happened to the type `of` in the synthesis so far.
Times(ev, of) == Cardinality({i \in DOMAIN log : log[i] = Event(ev, of)})
\* The synthesis runs on one parameter name, through TypeExprToValExpr
\* and with one CycleInfo.
OneRecursion == param \in Params /\ Len(param.Names) = 1 /\ ~(HasVal /\ DecoratorVal)
\* FieldToAssignStmt has returned.
Synthesized == OneRecursion /\ assigned.done
ParamInput == Input(param.Type, <<"gen", "0">>, "root")
\* The struct and interface types of the packages, by what the log calls them.
TypeIds == DOMAIN RootDecls \cup DOMAIN RootOtherDecls \cup DOMAIN ExtDecls
\* Parameter types that are structs or interfaces referencing themselves.
SelfReferencing ==
    {Named(n, "root") : n \in {"Node", "Tree", "A", "B", "I", "K", "L", "S"}}
    \cup {Basic("Far"), SelectorExpr(Ident(<<"ext">>, "nil"), Ident(<<"Conn">>, "nil"))}

\* C2: for a struct or interface type that references itself, directly or
\* through other types, TypeExprToValExpr terminates and, within one
\* CycleInfo, expands the body of no type more than MaxRecursion times,
\* for every MaxRecursion >= 1.
C2_TerminatesWithinMax ==
    (OneRecursion /\ param.Type \in SelfReferencing /\ opts.MaxRecursion >= 1) =>
        /\ crash # "stack overflow"
        /\ \A id \in TypeIds : Times("expand", id) <= opts.MaxRecursion

\* C3: synthesis terminates on every cyclic type graph, also on a named
\* slice, map or pointer type whose element type is the named type itself,
\* whenever the length policy answers 1 or more.
C3_TerminatesOnCycles ==
    (OneRecursion /\ \A i \in DOMAIN policy.lens : policy.lens[i] >= 1) =>
        crash # "stack overflow"

\* C4: synthesizing a root Node (Node's only recursive field is Next *Node)
\* with a fresh CycleInfo and MaxRecursion = N >= 1 expands the fields of
\* exactly N nested Node constructions, and the next, deepest Node value is
\* the memoized skeleton, the composite literal of Node without fields,
\* after which nothing more happens.
C4_ExactlyMaxRecursionNodes ==
    (Synthesized /\ param.Type = Named("Node", "root") /\ opts.MaxRecursion >= 1) =>
        LET N == opts.MaxRecursion
            \* the Node values, from the outermost to the deepest
            nodeVals == [i \in 1..(N + 1) |->
                        IF i = 1 THEN returned.Expr
                        ELSE returned.Statements[N + 2 - i].Rhs[1]]
        IN  /\ crash = "none"
            /\ Times("expand", "Node") = N
            /\ Times("fields", "Node") = N
            /\ Times("skeleton", "Node") = 1
            /\ log[Len(log)] = Event("skeleton", "Node")
            /\ Len(returned.Statements) = N
            /\ \A i \in 1..N :
                  /\ nodeVals[i].k = "CompositeLit"
                  /\ nodeVals[i].Type = Ident(<<"Node">>, "nil")
                  /\ Len(nodeVals[i].Elts) = 2
                  /\ nodeVals[i].Elts[2].Key = Ident(<<"Next">>, "nil")
                  \* Next points at the temporary holding the next Node
                  /\ nodeVals[i].Elts[2].Value =
                        UnaryExpr("&", returned.Statements[N + 1 - i].Lhs[1])
            /\ nodeVals[N + 1] = CompositeLit(Ident(<<"Node">>, "nil"), <<>>)
            /\ counter.Structs[<<"Node">>] = N + 1

\* A root Node has been synthesized with MaxRecursion = 3: three nodeVals with
\* fields, the third one pointing at the skeleton.
C4_Witness ==
    /\ Synthesized
    /\ param.Type = Named("Node", "root")
    /\ opts.MaxRecursion = 3
    /\ Times("fields", "Node") = 3
    /\ returned.Statements[1].Rhs[1] = CompositeLit(Ident(<<"Node">>, "nil"), <<>>)
    /\ returned.Expr.Elts[2].Value = UnaryExpr("&", returned.Statements[3].Lhs[1])

\* C10: whenever the type being synthesized is an ungeneratable interface or
\* an ungeneratable function type, however it is reached, synthesis returns
\* a nil of that type (for an interface a nil-returning function literal
\* called on the spot, for a function type its constructor applied to nil),
\* never an empty result, and never recurses into the type.
C10_NilOfUngeneratable ==
    (OneRecursion
       /\ (assigned.done \/ crash # "none")
       /\ (ShouldReturnForInterface(param.Type, ParamInput)
             \/ ShouldReturnForFunc(param.Type, ParamInput))) =>
        /\ crash = "none"
        /\ log = <<>>
        /\ returned.Declarations = <<>>
        /\ returned.Expr.k = "CallExpr"
        /\ IF ShouldReturnForInterface(param.Type, ParamInput)
           THEN /\ returned.Expr.Fun.k = "FuncLit"
                /\ returned.Expr.Fun.Body = <<ReturnStmt(<<Ident(<<"nil">>, "nil")>>)>>
           ELSE returned.Expr.Args = <<Ident(<<"nil">>, "nil")>>

Range(seq) == {seq[i] : i \in DOMAIN seq}

\* C11: map synthesis never produces two entries with the same key
\* expression.  As many keys are tried as the length policy said; a key that
\* was tried before is dropped without another try and adds no entry, no
\* statement and no declaration, so the map has as many entries as there are
\* different keys among the tries, at most the count.
C11_DistinctMapKeys ==
    [][Running("MapExprToValExpr") =>
         LET loc == Top.loc
         IN  \* the key that came back was tried before
             /\ (Top.pc = "keyRecursionResult" /\ returned.Expr \in Range(loc.attempts)) =>
                   /\ Len(stack') = Len(stack)
                   /\ stack'[Len(stack)].loc.result = loc.result
                   /\ stack'[Len(stack)].loc.elts = loc.elts
                   /\ stack'[Len(stack)].loc.i = loc.i + 1
                   /\ stack'[Len(stack)].pc = "loop"
             \* the loop is over
             /\ (Top.pc = "loop" /\ loc.i >= loc.mapLen) =>
                   LET elts == returned'.Expr.Elts
                   IN  /\ Len(loc.attempts) = loc.mapLen
                       /\ \A a, b \in DOMAIN elts : a # b => elts[a].Key # elts[b].Key
                       /\ {elts[a].Key : a \in DOMAIN elts} = Range(loc.attempts)
                       /\ Len(elts) = Cardinality(Range(loc.attempts))
                       /\ Len(elts) <= loc.mapLen]_vars

\* A map[int]string has been synthesized with a count of 3: of the three keys
\* tried the second repeated the first, and the map has two entries.
C11_Witness ==
    /\ Synthesized
    /\ param.Type = MapType(Basic("int"), Basic("string"))
    /\ policy.lens = <<3>>
    /\ asked.vals = 5
    /\ Len(returned.Expr.Elts) = 2
    /\ returned.Expr.Elts[1].Key # returned.Expr.Elts[2].Key

\* C12: when the JSON decoding of the line ParseLine receives fails (a syntax
\* error, or a field of the wrong JSON type), ParseLine produces no
\* statement, whichever fields of the capture were populated before the
\* error was reported.
C12_MalformedYieldsNothing ==
    \A c \in DOMAIN calls :
        calls[c].line.err => calls[c].res = <<>> /\ calls[c].stmts = <<>>

\* C14: decoding, through ParseLine, a capture without a child whose type is
\* of the integer/float/byte/rune family yields exactly one statement: an
\* equal-values assertion whose Value is the variable name of the capture and
\* whose Expected is <type>(<captured text>), with nothing before or after it.
C14_NumberWithoutChild ==
    \A c \in CallIdx :
        (Len(Nodes(c)) = 1 /\ Leaf(c).Type \in NumericTypes) =>
            /\ Len(calls[c].stmts) = 1
            /\ calls[c].stmts[1].Stmt = "AssertStmt"
            /\ calls[c].stmts[1].StmtType = "EqualValues"
            /\ calls[c].stmts[1].B = Leaf(c).VarName
            /\ calls[c].stmts[1].A = <<Leaf(c).Type, "(">> \o Leaf(c).Val \o <<")">>
            /\ Len(calls[c].res) = 1

\* The capture {type float64, var_name x, val 4.2} has been decoded to the
\* assertion that x equals float64(4.2).
C14_Witness ==
    \E c \in CallIdx :
        /\ Nodes(c) = <<Output("float64", <<"x">>, "", <<"4", ".", "2">>, <<>>)>>
        /\ ~calls[c].line.err
        /\ calls[c].stmts =
              <<AssertStmt("EqualValues", <<"float64", "(", "4", ".", "2", ")">>, <<"x">>)>>

\* InterfaceTypeToValExpr is about to return the implementation of an
\* interface all of whose methods are function-typed (and named).
ImplementsMethods ==
    /\ Running("InterfaceTypeToValExpr")
    /\ Top.pc = "implementationResult"
    /\ \A i \in DOMAIN Top.input.e.Methods :
          /\ Top.input.e.Methods[i].Type.k = "FuncType"
          /\ Len(Top.input.e.Methods[i].Names) = 1
\* The declarations of `decls` that are methods of the type `impl`.
MethodsOf(decls, impl) ==
    SelectSeq(decls, LAMBDA d : d.k = "FuncDecl" /\ d.Recv.Type = StarExpr(impl))
\* How many values a function of type `t` returns.
RECURSIVE ResultValuesFrom(_, _)
ResultValuesFrom(t, i) ==
    IF i > Len(t.Results) THEN 0
    ELSE (IF Len(t.Results[i].Names) = 0 THEN 1 ELSE Len(t.Results[i].Names))
         + ResultValuesFrom(t, i + 1)

\* C13 as stated: the declarations an expanding synthesis of a generatable
\* interface with k function-typed methods returns consist of the
\* implementing type's declaration and one method declaration per method,
\* and of nothing else.
C13_Original ==
    [][ImplementsMethods =>
         Len(returned'.Declarations) = Len(Top.input.e.Methods) + 1]_vars

\* C13, amended: an expanding synthesis of a generatable interface with k
\* function-typed methods returns the address of an empty composite literal
\* of a freshly named implementing type and no statements; the declarations
\* start with that type's declaration and hold exactly one method of that
\* type per interface method, in their order, with receiver s of type
\* pointer to the implementing type and a body that ends in a return of the
\* method's synthesized results.  The declarations that synthesizing the
\* methods' results produced (the implementing types of interface-typed
\* results) come with them.
C13_ImplementingType ==
    [][ImplementsMethods =>
         LET t == Top.input.e
             impl == Top.loc.interfaceImplIdent
             res == returned'
             own == MethodsOf(res.Declarations, impl)
         IN  /\ res.Expr = UnaryExpr("&", CompositeLit(impl, <<>>))
             /\ res.Statements = <<>>
             /\ res.Declarations[1].k = "GenDecl"
             /\ res.Declarations[1].Specs[1].Name = impl
             \* the name is fresh: no other declaration declares it
             /\ \A i \in 2..Len(res.Declarations) :
                   res.Declarations[i].k = "GenDecl" =>
                       res.Declarations[i].Specs[1].Name # impl
             /\ Len(res.Declarations) = 1 + Len(returned.Declarations)
             /\ Len(own) = Len(t.Methods)
             /\ \A i \in DOMAIN own :
                   LET body == own[i].Body
                       last == body[Len(body)]
                   IN  /\ own[i].Name = t.Methods[i].Names[1]
                       /\ own[i].Recv.Names = <<Ident(<<"s">>, "nil")>>
                       /\ last.k = "ReturnStmt"
                       /\ Len(last.Results) = ResultValuesFrom(t.Methods[i].Type, 1)
                       \* what is returned has been assigned in the body
                       /\ \A v \in DOMAIN last.Results :
                             \E j \in 1..(Len(body) - 1) :
                                 /\ body[j].k = "AssignStmt"
                                 /\ body[j].Lhs = <<last.Results[v]>>]_vars

\* The interface I { Next() I } has been synthesized with MaxRecursion = 2:
\* besides the implementing type and its method Next, the declarations hold
\* the implementing type of Next's result and its method.
C13_Witness ==
    /\ Synthesized
    /\ param.Type = Named("I", "root")
    /\ opts.MaxRecursion = 2
    /\ returned.Expr.k = "UnaryExpr"
    /\ Len(returned.Declarations) = 4
    /\ Len(MethodsOf(returned.Declarations, returned.Expr.X.Type)) = 1
    /\ returned.Statements = <<>>

\* C15: the elements of a slice or array are synthesized independently:
\* between the elements the cycle counters and memos are what they were
\* before the first one, and every element of a slice of the non-recursive
\* struct Leaf has its one field X populated, whatever MaxRecursion is.
C15_IndependentElements ==
    /\ (Running("ArrayExprToValExpr") /\ Top.pc \in {"loop", "recursionResult"})
           => counter = Top.loc.before
    /\ (Synthesized /\ param.Type = Slice(Named("Leaf", "root")))
           => \A i \in DOMAIN returned.Expr.Elts :
                 Len(returned.Expr.Elts[i].Elts) = 1

\* The frames of `s` that synthesize the fields of a named struct: those
\* StructExprToValExpr has called.
FieldsOfNamed(s) ==
    {i \in 2..Len(s) : s[i].fn = "StructFieldsToKeyValExpr"
                       /\ s[i - 1].fn = "StructExprToValExpr"}
\* The frames of `s` that synthesize the methods of an interface, and those
\* among them that InterfaceTypeToValExpr has called: the others synthesize
\* the methods of an interface embedded in another one.
MethodsOfAny(s) == {i \in 2..Len(s) : s[i].fn = "InterfaceTypeToFuncImpl"}
MethodsOfValue(s) ==
    {i \in MethodsOfAny(s) : s[i - 1].fn = "InterfaceTypeToValExpr"}
\* The memos and counters of `d` continue those of `c`: no entry is gone, no
\* memo is another one, no counter is lower.
Continues(c, d) ==
    /\ \A id \in DOMAIN c.StructMem :
          id \in DOMAIN d.StructMem /\ d.StructMem[id] = c.StructMem[id]
    /\ \A id \in DOMAIN c.InterfaceMem :
          id \in DOMAIN d.InterfaceMem /\ d.InterfaceMem[id] = c.InterfaceMem[id]
    /\ \A n \in DOMAIN c.Structs : n \in DOMAIN d.Structs /\ d.Structs[n] >= c.Structs[n]
    /\ \A id \in DOMAIN c.Interfaces :
          id \in DOMAIN d.Interfaces /\ d.Interfaces[id] >= c.Interfaces[id]
\* A memo is written by the step that first meets its type in this
\* CycleInfo, and by no other.
WrittenOnFirstEncounter ==
    /\ DOMAIN counter'.StructMem # DOMAIN counter.StructMem =>
          /\ Running("StructExprToValExpr")
          /\ Top.input.e.id \notin DOMAIN counter.StructMem
          /\ DOMAIN counter'.StructMem = DOMAIN counter.StructMem \cup {Top.input.e.id}
          /\ OneRecursion => Times("expand", Top.input.e.id) = 0
                             /\ Times("skeleton", Top.input.e.id) = 0
    /\ DOMAIN counter'.InterfaceMem # DOMAIN counter.InterfaceMem =>
          /\ Running("InterfaceTypeToValExpr")
          /\ Top.input.e.id \notin DOMAIN counter.InterfaceMem
          /\ DOMAIN counter'.InterfaceMem =
                DOMAIN counter.InterfaceMem \cup {Top.input.e.id}
          /\ Count(counter.Interfaces, Top.input.e.id) = 0
\* FieldToAssignStmt starts every name of the parameter with a CycleInfo of
\* its own; every other step works within the one it finds.
SameCycleInfo == ~Running("FieldToAssignStmt")

\* C16 as stated: while the fields of a named struct or the methods of any
\* interface are synthesized, the memo of that struct or interface is
\* present; memos are written on the first encounter only and are never
\* overwritten or removed, and no occurrence counter decreases.
C16_Original ==
    [][/\ \A i \in FieldsOfNamed(stack') :
             stack'[i].input.e.id \in DOMAIN counter'.StructMem
       /\ \A i \in MethodsOfAny(stack') :
             stack'[i].input.e.id \in DOMAIN counter'.InterfaceMem
       /\ SameCycleInfo => Continues(counter, counter') /\ WrittenOnFirstEncounter]_vars

\* C16, amended: while the fields of a named struct are synthesized, or the
\* methods of an interface that is being synthesized as a value, the memo of
\* that struct or interface is present; the methods of an interface embedded
\* in another are synthesized under the memo of the interface that is being
\* synthesized as a value, their own interface need not have one.  Memos are
\* written on the first encounter only and are never overwritten or
\* removed, and no occurrence counter decreases.
C16_MemoBeforeRecursion ==
    [][/\ \A i \in FieldsOfNamed(stack') :
             stack'[i].input.e.id \in DOMAIN counter'.StructMem
       /\ \A i \in MethodsOfValue(stack') :
             stack'[i].input.e.id \in DOMAIN counter'.InterfaceMem
       /\ \A i \in MethodsOfAny(stack') :
             \E j \in MethodsOfValue(stack') :
                 /\ j <= i
                 /\ \A m \in j..i : stack'[m].fn = "InterfaceTypeToFuncImpl"
                 /\ stack'[j].input.e.id \in DOMAIN counter'.InterfaceMem
       /\ SameCycleInfo => Continues(counter, counter') /\ WrittenOnFirstEncounter]_vars

\* Mutual recursion at work: while the fields of B are synthesized inside
\* those of A, A's memo is there, and A has been met a second time without
\* its memo or B's being written again.
C16_Witness ==
    /\ OneRecursion
    /\ \E i, j \in FieldsOfNamed(stack) :
          /\ i < j
          /\ stack[i].input.e.id = "A"
          /\ stack[j].input.e.id = "B"
    /\ {"A", "B"} \subseteq DOMAIN counter.StructMem
    /\ Times("memo", "A") = 1
    /\ Times("expand", "A") + Times("skeleton", "A") >= 2

\* What a synthesis is run for: a parameter, or the receiver of a method.
ForParameter == stack # <<>> /\ stack[1].fn = "FieldToAssignStmt"
ForReceiver ==
    stack # <<>> /\ stack[1].fn = "GetFuncReceiverStmts" /\ stack[1].loc.recv # NilNode
\* `res` is n assignments of distinct identifiers to the stored value the
\* selection policy points at, and nothing else.
OnlyOverrides(res, values, n) ==
    /\ DecoratorIndex(Len(values)) \in 0..(Len(values) - 1)
    /\ Len(res.Idents) = n
    /\ Len(res.Statements) = n
    /\ res.Declarations = <<>>
    /\ res.ChanIdents = <<>>
    /\ \A i \in 1..n :
          res.Statements[i] =
              assignStmt(res.Idents[i], values[DecoratorIndex(Len(values)) + 1].Call)
    /\ \A i, j \in 1..n : res.Idents[i] = res.Idents[j] => i = j
\* The step leaves nothing but FieldToAssignStmt and GetFuncReceiverStmts at
\* work: no type is synthesized.
NoTypeSynthesis ==
    \A i \in DOMAIN stack' : stack'[i].fn \in {"FieldToAssignStmt", "GetFuncReceiverStmts"}
\* The synthesis ends with this step.
Ends == ~assigned.done /\ assigned'.done

Generated == {Generate([asked EXCEPT !.gen = n]).name : n \in 0..(asked.gen - 1)}

\* C18: channel synthesis returns a fresh identifier as value and exactly
\* one statement, the assignment of make(<channel type>) to it, and no
\* declaration; the identifier is in the returned ChanIdents if and only if
\* the channel's direction is send-only or bidirectional, and is then the
\* only one there.
C18_ChannelCreated ==
    [][Running("ChanTypeToValExpr") =>
         LET t == Top.loc.t
             res == returned'
         IN  /\ res.Expr.k = "Ident"
             /\ res.Expr.Name \notin Generated
             /\ res.Expr.Name \in {Generate([asked' EXCEPT !.gen = n]).name :
                                      n \in 0..(asked'.gen - 1)}
             /\ res.Statements =
                   <<assignStmt(res.Expr, CallExpr(Ident(<<"make">>, "nil"), <<t>>))>>
             /\ res.Declarations = <<>>
             /\ t.Dir \in {"SEND", "SEND|RECV"} => res.ChanIdents = <<res.Expr>>
             /\ t.Dir = "RECV" => res.ChanIdents = <<>>
             /\ t.Dir \in {"SEND", "SEND|RECV", "RECV"}]_vars

\* A send-only channel parameter has been synthesized, and its identifier
\* recorded.
C18_Witness ==
    /\ Synthesized
    /\ param.Type = ChanType("SEND", Basic("int"))
    /\ returned.Expr.k = "Ident"
    /\ returned.ChanIdents = <<returned.Expr>>
    /\ assigned.res.ChanIdents = <<returned.Expr>>
    /\ Len(assigned.res.Statements) = 2

\* The identifiers whose address is taken somewhere in the expression e.
RECURSIVE AddressedIn(_)
AddressedIn(e) ==
    CASE e.k = "UnaryExpr" ->
           IF e.Op = "&" /\ e.X.k = "Ident" THEN {e.X} ELSE AddressedIn(e.X)
      [] e.k = "CompositeLit" -> UNION {AddressedIn(e.Elts[i]) : i \in DOMAIN e.Elts}
      [] e.k = "KeyValueExpr" -> AddressedIn(e.Key) \cup AddressedIn(e.Value)
      [] e.k = "CallExpr" -> UNION {AddressedIn(e.Args[i]) : i \in DOMAIN e.Args}
      [] OTHER -> {}
\* In the statement list every identifier is assigned before the statement
\* that takes its address.
AssignedBeforeAddressed(stmts) ==
    \A i \in DOMAIN stmts :
        stmts[i].k = "AssignStmt" =>
            \A x \in AddressedIn(stmts[i].Rhs[1]) :
                \E j \in 1..(i - 1) : stmts[j].k = "AssignStmt" /\ stmts[j].Lhs = <<x>>

\* C19: pointer synthesis returns the address of a temporary and the
\* pointee's statements, in their order, followed by the assignment of the
\* pointee's value to the temporary as the last statement; in what it
\* returns, and in what the parameter is finally given, every temporary is
\* assigned before the statement that takes its address.
C19_PointeeFirst ==
    [][/\ (Running("StarExprToValExpr") /\ Top.pc # "entry") =>
             LET identTemp == Ident(Top.loc.tempVarName, "nil")
                 pointee == returned
                 res == returned'
                 n == Len(pointee.Statements)
             IN  /\ res.Expr = UnaryExpr("&", identTemp)
                 /\ Len(res.Statements) = n + 1
                 /\ SubSeq(res.Statements, 1, n) = pointee.Statements
                 /\ res.Statements[n + 1] = assignStmt(identTemp, pointee.Expr)
                 /\ \A j \in 1..n : res.Statements[j].k = "AssignStmt" =>
                                       res.Statements[j].Lhs # <<identTemp>>
                 /\ AssignedBeforeAddressed(res.Statements)
       /\ (~assigned.done /\ assigned'.done) =>
             AssignedBeforeAddressed(assigned'.res.Statements)]_vars

\* A parameter of type **int has been synthesized: the int goes to one
\* temporary, its address to a second, whose address the parameter gets.
C19_Witness ==
    /\ Synthesized
    /\ param.Type = StarExpr(StarExpr(Basic("int")))
    /\ Len(assigned.res.Statements) = 3
    /\ LET stmts == assigned.res.Statements
       IN  /\ stmts[1].Rhs[1].k = "BasicLit"
           /\ stmts[2].Rhs = <<UnaryExpr("&", stmts[1].Lhs[1])>>
           /\ stmts[3].Rhs = <<UnaryExpr("&", stmts[2].Lhs[1])>>
           /\ stmts[1].Lhs # stmts[2].Lhs

\* Where the statement list `body` assigns the identifier v.
AssignmentsTo(body, v) ==
    {j \in DOMAIN body : body[j].k = "AssignStmt" /\ body[j].Lhs = <<v>>}
\* `body` is the body of a function returning n values: for each of them, in
\* order, some statements and then the one assignment to its identifier,
\* and at the end the only return statement, listing the identifiers.
ReturnsInOrder(body, n) ==
    /\ body # <<>>
    /\ body[Len(body)].k = "ReturnStmt"
    /\ \A j \in 1..(Len(body) - 1) : body[j].k # "ReturnStmt"
    /\ LET retVars == body[Len(body)].Results
           At(v) == CHOOSE j \in AssignmentsTo(body, retVars[v]) : TRUE
       IN  /\ Len(retVars) = n
           /\ \A v \in 1..n : /\ retVars[v].k = "Ident"
                              /\ Cardinality(AssignmentsTo(body, retVars[v])) = 1
           /\ \A v, w \in 1..n : v < w => At(v) < At(w)
           /\ n > 0 => At(n) = Len(body) - 1
           /\ n = 0 => body = <<ReturnStmt(<<>>)>>

\* C20: function-type synthesis returns no statements to the caller; the
\* body of the function literal holds, for each declared result value in
\* declared order (one per name, one for an unnamed result), its supporting
\* statements followed by the assignment of its value to a fresh identifier,
\* and ends with the single return statement, which lists those identifiers
\* in that order; without results the body is a bare return.
C20_FunctionBody ==
    [][/\ (Running("ReturnFieldToStmt") /\ Top.pc # "entry") =>
             /\ returned'.Expr = Ident(Top.loc.resName, "nil")
             /\ returned'.Statements =
                   Append(returned.Statements, assignStmt(returned'.Expr, returned.Expr))
             /\ AssignmentsTo(returned.Statements, returned'.Expr) = {}
       /\ (Running("FuncReturnListToBodyStatements") /\ Top.pc = "recursionResult") =>
             /\ Top'.loc.retVars = Append(Top.loc.retVars, returned.Expr)
             /\ Top'.loc.result.Statements =
                   Top.loc.result.Statements \o returned.Statements
       /\ (Running("FuncTypeToValExpr") /\ Top.pc # "entry") =>
             /\ returned'.Statements = <<>>
             /\ returned'.Expr.k = "FuncLit"
             /\ returned'.Expr.Body = returned.Statements
             /\ ReturnsInOrder(returned'.Expr.Body, ResultValuesFrom(Top.input.e, 1))]_vars

\* A parameter of type func() (n, m int, chan int) has been synthesized: the
\* body assigns two ints, makes the channel, assigns it, and returns the
\* three identifiers in that order.
C20_Witness ==
    /\ Synthesized
    /\ param.Type.k = "FuncType"
    /\ ResultValuesFrom(param.Type, 1) = 3
    /\ returned.Statements = <<>>
    /\ returned.Expr.k = "FuncLit"
    /\ LET body == returned.Expr.Body
       IN  /\ Len(body) = 5
           /\ body[1].Rhs[1].k = "BasicLit"
           /\ body[2].Rhs[1].k = "BasicLit"
           /\ body[3].Rhs[1].k = "CallExpr"
           /\ body[4].Rhs = body[3].Lhs
           /\ body[5] = ReturnStmt(<<body[1].Lhs[1], body[2].Lhs[1], body[4].Lhs[1]>>)

\* C21: a capture whose terminal node has a type the decoder does not know
\* decodes to no assertion, and the dereference assignments of the non-nil
\* pointer nodes above it stay in the returned list as they were.
C21_UnknownLeafKeepsAssignments ==
    \A c \in CallIdx :
        Leaf(c).Type \notin RecognizedTypes =>
            LET st == calls[c].stmts
            IN  /\ \A i \in 1..Len(st) : st[i].Stmt # "AssertStmt"
                /\ Len(st) = Cardinality(DerefNodes(c))
                /\ \A j \in DerefNodes(c) :
                       /\ st[Rank(c, j)].Stmt = "AssignStmt"
                       /\ st[Rank(c, j)].B = <<"*">> \o Nodes(c)[j].VarName

\* The pointer nodes of the path, the terminal node included, whose
\* captured value is not nil.
NonNilPointerNodes(c) ==
    {j \in 1..Len(Nodes(c)) : Nodes(c)[j].Type = "pointer" /\ Nodes(c)[j].Val # Nil}

\* C22: the statement list of a capture is empty, or it is one assignment
\* for each non-nil pointer node of the path, outermost first, followed by
\* exactly one assertion, its last statement.
C22_AssignsThenOneAssert ==
    \A c \in CallIdx :
        LET st == calls[c].stmts
            n == Len(st)
            OfNode(i) == CHOOSE j \in NonNilPointerNodes(c) :
                            Cardinality({m \in NonNilPointerNodes(c) : m <= j}) = i
        IN  st # <<>> =>
                /\ st[n].Stmt = "AssertStmt"
                /\ n - 1 = Cardinality(NonNilPointerNodes(c))
                /\ \A i \in 1..(n - 1) :
                       /\ st[i].Stmt = "AssignStmt"
                       /\ st[i].B = <<"*">> \o Nodes(c)[OfNode(i)].VarName

\* The step returns from a call of TypeExprToValExpr.
ReturnsFromTypeExprToValExpr ==
    /\ crash' = "none"
    /\ Len(stack') < Len(stack)
    /\ \E i \in (Len(stack') + 1)..Len(stack) : stack[i].fn = "TypeExprToValExpr"
\* The statement creates the channel `id` names.
Creates(stmt, id) ==
    /\ stmt.k = "AssignStmt"
    /\ stmt.Lhs = <<Ident(id.Name, "nil")>>
    /\ stmt.Rhs[1].k = "CallExpr"
    /\ stmt.Rhs[1].Fun = Ident(<<"make">>, "nil")

\* C23: every identifier in the ChanIdents that a call of TypeExprToValExpr
\* returns is declared by a creation statement in the statement list the
\* same call returns, also when the channel is made for the result of a
\* function type or of an interface method.
C23_ChannelsDeclared ==
    [][ReturnsFromTypeExprToValExpr =>
         \A c \in DOMAIN returned'.ChanIdents :
             \E s \in DOMAIN returned'.Statements :
                 Creates(returned'.Statements[s], returned'.ChanIdents[c])]_vars

\* The struct types among the self-referencing parameter types, with what
\* the log calls them.
SelfReferencingStructs ==
    [n \in {"Node", "Tree", "A", "B", "S"} |-> Named(n, "root")]
    @@ [n \in {"Far"} |-> Basic("Far")]
    @@ [n \in {"Conn"} |-> SelectorExpr(Ident(<<"ext">>, "nil"), Ident(<<"Conn">>, "nil"))]
\* StructExprToValExpr meets a struct type that has no memo in this
\* CycleInfo.
FirstEncounter ==
    /\ Running("StructExprToValExpr")
    /\ Top.input.e.k = "StructType"
    /\ Top.input.e.id \notin DOMAIN counter.StructMem

\* C24: the first encounter of a named struct type in a CycleInfo expands
\* its fields whatever MaxRecursion is; with MaxRecursion = 0 the synthesis
\* of a struct that references itself terminates and has expanded the
\* struct exactly once.
C24_FirstEncounterExpands ==
    [][/\ FirstEncounter =>
             \/ crash' = "stack overflow"
             \/ /\ Top'.fn = "StructFieldsToKeyValExpr"
                /\ Top'.input.e = Top.input.e
                /\ log'[Len(log')] = Event("expand", Top.input.e.id)
       /\ \A id \in DOMAIN SelfReferencingStructs :
             (/\ OneRecursion
              /\ param.Type = SelfReferencingStructs[id]
              /\ opts.MaxRecursion = 0) =>
                 /\ crash' # "stack overflow"
                 /\ Times("expand", id)' <= 1
                 /\ assigned'.done => Times("expand", id)' = 1]_vars

=============================================================================
